---- MODULE Spec2Model ----
(***************************************************************************)
(* Synse SDK: the configuration pipeline (processPluginConfig,             *)
(* processDeviceConfigs, processOutputTypeConfig), scheme versions and     *)
(* the unification of device configs (unifyDeviceConfigs and               *)
(* mergeDeviceKinds); the earlier plugin config (PluginConfig.Merge,       *)
(* ConfigurePlugin) and device instance parsing (ParseDeviceConfig); the   *)
(* encoding of readings (Reading.Encode); the read/write scheduler, the     *)
(* write queue and the transaction tracker with its reaper.                *)
(***************************************************************************)
EXTENDS Integers, Sequences, FiniteSets, TLC

VARIABLES
    Config,   \* the global Config: [Plugin, Device]
    call,     \* what the last stage call met: policies, loader result, registrar results
    ret,      \* what the last stage call returned
    done,     \* the stages that have run
    uin,      \* the ConfigContexts handed to unifyDeviceConfigs
    uout,     \* what unifyDeviceConfigs returned for uin, and the contexts after the call
    uagain,   \* what unifyDeviceConfigs returned for the one-element list holding uout's context
    SDKConfig,\* the earlier global plugin configuration (var Config = GetDefaultConfig())
    arg,      \* the function under study and the arguments it is called with
    out,      \* what that function returned
    writeChannel, \* the write queue: ids of the queued transactions, oldest first
    transactions, \* the transaction tracker: id -> [device, state, updated]
    nextId,   \* the id the next transaction gets
    now,      \* the clock, in seconds
    loop,     \* the scheduler: [phase, taken, current]
    rpc,      \* the last reply an RPC handler gave
    reaper    \* the reaper: [ran], whether a pass ran since the clock last moved

vars == <<Config, call, ret, done, uin, uout, uagain, SDKConfig, arg, out,
          writeChannel, transactions, nextId, now, loop, rpc, reaper>>

pipelineVars == <<Config, call, ret, done>>
unifyVars == <<uin, uout, uagain>>
funcVars == <<SDKConfig, arg, out>>
schedVars == <<writeChannel, transactions, nextId, now, loop, rpc, reaper>>

\* The nil error (errors are named by strings) and the nil pointer.
Nil == "nil"
None == [nil |-> TRUE]

\* ---------------------------------------------------------------------------
\* Bounds
\* ---------------------------------------------------------------------------
MaxCtxs == 3       \* contexts in one unifyDeviceConfigs input list
MaxFileCtxs == 2   \* device config files the loader finds
MaxDynamic == 2    \* entries of Config.Plugin.DynamicRegistration.Config

Max(S) == CHOOSE x \in S : \A y \in S : y <= x

\* ---------------------------------------------------------------------------
\* Scheme versions.  A version string is a sequence of characters.
\* ---------------------------------------------------------------------------
Digits == <<"0", "1", "2", "3", "4", "5", "6", "7", "8", "9">>

IsDigit(c) == \E d \in 1..10 : Digits[d] = c

DigitVal(c) == (CHOOSE d \in 1..10 : Digits[d] = c) - 1

RECURSIVE DecVal(_)
DecVal(s) == IF s = <<>> THEN 0 ELSE 10 * DecVal(SubSeq(s, 1, Len(s) - 1)) + DigitVal(s[Len(s)])

\* strconv.Atoi: an optional sign, then one or more decimal digits.
Atoi(s) ==
    LET signed == s # <<>> /\ s[1] \in {"+", "-"}
        body == IF signed THEN Tail(s) ELSE s
    IN  IF body = <<>> \/ \E i \in 1..Len(body) : ~IsDigit(body[i])
        THEN [err |-> "syntax", val |-> 0]
        ELSE [err |-> Nil,
              val |-> IF signed /\ s[1] = "-" THEN 0 - DecVal(body) ELSE DecVal(body)]

\* strings.Split(s, "."): the pieces of s between the dots.
RECURSIVE Split(_)
Split(s) ==
    LET dots == {i \in 1..Len(s) : s[i] = "."}
    IN  IF dots = {} THEN <<s>>
        ELSE LET d == CHOOSE i \in dots : \A j \in dots : i <= j
             IN  <<SubSeq(s, 1, d - 1)>> \o Split(SubSeq(s, d + 1, Len(s)))

NewVersion(versionString) ==
    IF versionString = <<>> THEN [err |-> "no version info found", version |-> Nil]
    ELSE LET s == Split(versionString)
         IN  CASE Len(s) = 1 ->
                    LET maj == Atoi(s[1])
                    IN  IF maj.err # Nil THEN [err |-> maj.err, version |-> Nil]
                        ELSE [err |-> Nil, version |-> [Major |-> maj.val, Minor |-> 0]]
               [] Len(s) = 2 ->
                    LET maj == Atoi(s[1])
                        min == Atoi(s[2])
                    IN  IF maj.err # Nil THEN [err |-> maj.err, version |-> Nil]
                        ELSE IF min.err # Nil THEN [err |-> min.err, version |-> Nil]
                        ELSE [err |-> Nil, version |-> [Major |-> maj.val, Minor |-> min.val]]
               [] OTHER -> [err |-> "too many version components", version |-> Nil]

IsLessThan(version, other) == version.Major < other.Major

IsGreaterOrEqualTo(version, other) == version.Major >= other.Major

\* The equality that compares the minor components as well.
IsEqual_ComparesMinor(version, other) ==
    version.Major = other.Major /\ version.Minor = other.Minor

IsEqual(version, other) == version.Major = other.Major

\* SchemeVersion.GetVersion: parse the Version field of a config.
GetVersion(config) == NewVersion(config.Version)

\* ---------------------------------------------------------------------------
\* Config contexts and device configs
\* ---------------------------------------------------------------------------
V10 == <<"1", ".", "0">>
V15 == <<"1", ".", "5">>
V20 == <<"2", ".", "0">>
VNone == <<>>

currentDeviceSchemeVersion == V10

Location(name, rack, board) == [Name |-> name, Rack |-> rack, Board |-> board]

Instance(info, location) == [Info |-> info, Location |-> location]

DeviceKind(name, metadata, instances) ==
    [Name |-> name, Metadata |-> metadata, Instances |-> instances]

DeviceConfig(version, locations, devices) ==
    [Version |-> version, Locations |-> locations, Devices |-> devices]

NewConfigContext(source, type, config) == [Source |-> source, Type |-> type, Config |-> config]

IsDeviceConfig(ctx) == ctx.Type = "DeviceConfig"

IsPluginConfig(ctx) == ctx.Type = "PluginConfig"

IsOutputTypeConfig(ctx) == ctx.Type = "OutputType"

\* ---------------------------------------------------------------------------
\* unifyDeviceConfigs works on pointers: the contexts of the list, their
\* DeviceConfigs and the DeviceKinds of their Devices slices are objects the
\* caller still holds.  A heap keeps the contexts (their Devices being
\* sequences of DeviceKind addresses) and the DeviceKind objects.
\* ---------------------------------------------------------------------------
KindAddrs(ctxs) ==
    UNION {{<<i, j>> : j \in 1..Len(ctxs[i].Config.Devices)} :
              i \in {n \in 1..Len(ctxs) : IsDeviceConfig(ctxs[n])}}

NewHeap(ctxs) ==
    [ctxs  |-> [i \in 1..Len(ctxs) |->
                   IF IsDeviceConfig(ctxs[i])
                   THEN [ctxs[i] EXCEPT !.Config.Devices =
                            [j \in 1..Len(ctxs[i].Config.Devices) |-> <<i, j>>]]
                   ELSE ctxs[i]],
     kinds |-> [a \in KindAddrs(ctxs) |-> ctxs[a[1]].Config.Devices[a[2]]]]

\* The context at index i as a value, its kinds read through the heap.
Deref(heap, i) ==
    IF IsDeviceConfig(heap.ctxs[i])
    THEN [heap.ctxs[i] EXCEPT !.Config.Devices =
             [j \in 1..Len(heap.ctxs[i].Config.Devices) |->
                 heap.kinds[heap.ctxs[i].Config.Devices[j]]]]
    ELSE heap.ctxs[i]

DerefAll(heap) == [i \in 1..Len(heap.ctxs) |-> Deref(heap, i)]

\* exists[name] with the lookup never finding a kind.
ExistsKind_NeverFound(kinds, base, name) == <<>>

\* exists[name] of mergeDeviceKinds: built by a walk over the base slice, a
\* later kind of the same name replacing an earlier one.
ExistsKind(kinds, base, name) ==
    LET found == {j \in 1..Len(base) : kinds[base[j]].Name = name}
    IN  IF found = {} THEN <<>> ELSE base[Max(found)]

RECURSIVE mergeLoop(_, _, _, _, _)
mergeLoop(kinds, exists, base, source, n) ==
    IF n > Len(source) THEN [kinds |-> kinds, base |-> base]
    ELSE LET kind == source[n]
             k == ExistsKind(kinds, exists, kinds[kind].Name)
         IN  IF k = <<>>
             THEN mergeLoop(kinds, exists, Append(base, kind), source, n + 1)
             ELSE mergeLoop([kinds EXCEPT ![k].Instances = @ \o kinds[kind].Instances],
                            exists, base, source, n + 1)

\* mergeDeviceKinds(base, source): base and source are sequences of addresses.
mergeDeviceKinds(kinds, base, source) == mergeLoop(kinds, base, base, source, 1)

\* The loop of unifyDeviceConfigs without the "context == nil" case: the first
\* context is merged into itself as well.
RECURSIVE unifyLoop_MergeFirst(_, _)
unifyLoop_MergeFirst(heap, n) ==
    IF n > Len(heap.ctxs) THEN [err |-> Nil, context |-> 1, heap |-> heap]
    ELSE IF ~IsDeviceConfig(heap.ctxs[n])
    THEN [err |-> "config context does not represent a device config",
          context |-> 0, heap |-> heap]
    ELSE LET base == heap.ctxs[1].Config
             source == heap.ctxs[n].Config
             merged == mergeDeviceKinds(heap.kinds, base.Devices, source.Devices)
         IN  unifyLoop_MergeFirst(
                 [ctxs  |-> [heap.ctxs EXCEPT
                                ![1].Config.Locations = base.Locations \o source.Locations,
                                ![1].Config.Devices = merged.base],
                  kinds |-> merged.kinds],
                 n + 1)

RECURSIVE unifyLoop(_, _)
unifyLoop(heap, n) ==
    IF n > Len(heap.ctxs) THEN [err |-> Nil, context |-> 1, heap |-> heap]
    ELSE IF ~IsDeviceConfig(heap.ctxs[n])
    THEN [err |-> "config context does not represent a device config",
          context |-> 0, heap |-> heap]
    ELSE IF n = 1 THEN unifyLoop(heap, 2)
    ELSE LET base == heap.ctxs[1].Config
             source == heap.ctxs[n].Config
             merged == mergeDeviceKinds(heap.kinds, base.Devices, source.Devices)
         IN  unifyLoop([ctxs  |-> [heap.ctxs EXCEPT
                                      ![1].Config.Locations = base.Locations \o source.Locations,
                                      ![1].Config.Devices = merged.base],
                        kinds |-> merged.kinds],
                       n + 1)

\* unifyDeviceConfigs(ctxs): err, the index of the returned context (always
\* the first one) and the heap the call leaves behind.
unifyDeviceConfigs(ctxs) ==
    IF Len(ctxs) = 0
    THEN [err |-> "no ConfigContexts specified for unification",
          context |-> 0, heap |-> NewHeap(ctxs)]
    ELSE unifyLoop(NewHeap(ctxs), 1)

\* The returned context as a value (None when the call failed).
Unified(r) == IF r.err = Nil THEN Deref(r.heap, r.context) ELSE None

\* ---------------------------------------------------------------------------
\* Errors and the validators the stages call
\* ---------------------------------------------------------------------------
ConfigsNotFound == "ConfigsNotFound"
LoadError == "LoadError"
PolicyViolation == "PolicyViolation"

\* The type assertion taking every error for a not-found error.
IsNotFound_AnyError(err) == TRUE

\* err.(*errors.ConfigsNotFound)
IsNotFound(err) == err = ConfigsNotFound

\* validator.Validate(ctx): the scheme validator.  A config whose version does
\* not parse fails validation.
Validate(ctx) ==
    IF GetVersion(ctx.Config).err # Nil THEN <<"ValidationError">> ELSE <<>>

LocationNames(config) == {config.Locations[i].Name : i \in 1..Len(config.Locations)}

\* verifyConfigs(cfg): location names are unique and every instance's
\* location resolves against the locations of the config.
verifyConfigs(cfg) ==
    LET duplicate == \E i, j \in 1..Len(cfg.Locations) :
                         i # j /\ cfg.Locations[i].Name = cfg.Locations[j].Name
        unresolved == \E k \in 1..Len(cfg.Devices) :
                          \E n \in 1..Len(cfg.Devices[k].Instances) :
                              cfg.Devices[k].Instances[n].Location \notin LocationNames(cfg)
    IN  (IF duplicate THEN <<"duplicate location">> ELSE <<>>)
        \o (IF unresolved THEN <<"unresolved location">> ELSE <<>>)

PluginConfig(version, name, dynamic) ==
    [Version |-> version, Name |-> name, DynamicRegistration |-> dynamic]

\* NewDefaultPluginConfig(): the plugin config holding the defaults.
NewDefaultPluginConfig == PluginConfig(V10, "default", <<>>)

\* ---------------------------------------------------------------------------
\* processDeviceConfigs
\* ---------------------------------------------------------------------------
DeviceReturn(C, err, policyName, reached, ctxs, cfg) ==
    [stage |-> "device", err |-> err, policy |-> policyName, reached |-> reached,
     deviceCtxs |-> ctxs, cfg |-> cfg, Device |-> C.Device]

\* The errors the registrar calls returned, in call order.
RECURSIVE RegistrarErrors(_)
RegistrarErrors(registered) ==
    IF registered = <<>> THEN <<>>
    ELSE (IF registered[1].err # Nil THEN <<registered[1].err>> ELSE <<>>)
         \o RegistrarErrors(Tail(registered))

\* The contexts built from the configs of the registrar calls that succeeded.
RECURSIVE RegistrarCtxs(_)
RegistrarCtxs(registered) ==
    IF registered = <<>> THEN <<>>
    ELSE (IF registered[1].err # Nil THEN <<>>
          ELSE [j \in 1..Len(registered[1].cfgs) |->
                   NewConfigContext("dynamic registration", "DeviceConfig", registered[1].cfgs[j])])
         \o RegistrarCtxs(Tail(registered))

\* The last steps with the assignment to Config.Device made right after
\* unification, before the verification and the data validator.
DeviceCommit_CommitsEarly(C, in, deviceCtxs) ==
    IF \E i \in 1..Len(deviceCtxs) : Validate(deviceCtxs[i]) # <<>>
    THEN DeviceReturn(C, "ValidationError", "", "validate", deviceCtxs, None)
    ELSE LET unified == IF Len(deviceCtxs) = 0
                        THEN [err |-> Nil,
                              context |-> NewConfigContext("empty", "DeviceConfig",
                                  DeviceConfig(currentDeviceSchemeVersion, <<>>, <<>>))]
                        ELSE LET r == unifyDeviceConfigs(deviceCtxs)
                             IN  [err |-> r.err, context |-> Unified(r)]
         IN  IF unified.err # Nil
             THEN DeviceReturn(C, unified.err, "", "unify", deviceCtxs, None)
             ELSE LET cfg == unified.context.Config
                  IN  IF verifyConfigs(cfg) # <<>>
                      THEN [DeviceReturn(C, "VerifyError", "", "verify", deviceCtxs, cfg)
                               EXCEPT !.Device = cfg]
                      ELSE IF ~in.dataOk
                      THEN [DeviceReturn(C, "DataError", "", "data", deviceCtxs, cfg)
                               EXCEPT !.Device = cfg]
                      ELSE [DeviceReturn(C, Nil, "", "commit", deviceCtxs, cfg)
                               EXCEPT !.Device = cfg]

\* The last steps without the call of verifyConfigs.
DeviceCommit_SkipsVerify(C, in, deviceCtxs) ==
    IF \E i \in 1..Len(deviceCtxs) : Validate(deviceCtxs[i]) # <<>>
    THEN DeviceReturn(C, "ValidationError", "", "validate", deviceCtxs, None)
    ELSE LET unified == IF Len(deviceCtxs) = 0
                        THEN [err |-> Nil,
                              context |-> NewConfigContext("empty", "DeviceConfig",
                                  DeviceConfig(currentDeviceSchemeVersion, <<>>, <<>>))]
                        ELSE LET r == unifyDeviceConfigs(deviceCtxs)
                             IN  [err |-> r.err, context |-> Unified(r)]
         IN  IF unified.err # Nil
             THEN DeviceReturn(C, unified.err, "", "unify", deviceCtxs, None)
             ELSE LET cfg == unified.context.Config
                  IN  IF ~in.dataOk
                      THEN DeviceReturn(C, "DataError", "", "data", deviceCtxs, cfg)
                      ELSE [DeviceReturn(C, Nil, "", "commit", deviceCtxs, cfg)
                               EXCEPT !.Device = cfg]

\* The last steps with the data validator called before verifyConfigs.
DeviceCommit_DataBeforeVerify(C, in, deviceCtxs) ==
    IF \E i \in 1..Len(deviceCtxs) : Validate(deviceCtxs[i]) # <<>>
    THEN DeviceReturn(C, "ValidationError", "", "validate", deviceCtxs, None)
    ELSE LET unified == IF Len(deviceCtxs) = 0
                        THEN [err |-> Nil,
                              context |-> NewConfigContext("empty", "DeviceConfig",
                                  DeviceConfig(currentDeviceSchemeVersion, <<>>, <<>>))]
                        ELSE LET r == unifyDeviceConfigs(deviceCtxs)
                             IN  [err |-> r.err, context |-> Unified(r)]
         IN  IF unified.err # Nil
             THEN DeviceReturn(C, unified.err, "", "unify", deviceCtxs, None)
             ELSE LET cfg == unified.context.Config
                  IN  IF ~in.dataOk
                      THEN DeviceReturn(C, "DataError", "", "data", deviceCtxs, cfg)
                      ELSE IF verifyConfigs(cfg) # <<>>
                      THEN DeviceReturn(C, "VerifyError", "", "verify", deviceCtxs, cfg)
                      ELSE [DeviceReturn(C, Nil, "", "commit", deviceCtxs, cfg)
                               EXCEPT !.Device = cfg]

\* The steps after both policy checks: validation of every context,
\* unification, verification, the data validator and the commit.
DeviceCommit(C, in, deviceCtxs) ==
    IF \E i \in 1..Len(deviceCtxs) : Validate(deviceCtxs[i]) # <<>>
    THEN DeviceReturn(C, "ValidationError", "", "validate", deviceCtxs, None)
    ELSE LET unified == IF Len(deviceCtxs) = 0
                        THEN [err |-> Nil,
                              context |-> NewConfigContext("empty", "DeviceConfig",
                                  DeviceConfig(currentDeviceSchemeVersion, <<>>, <<>>))]
                        ELSE LET r == unifyDeviceConfigs(deviceCtxs)
                             IN  [err |-> r.err, context |-> Unified(r)]
         IN  IF unified.err # Nil
             THEN DeviceReturn(C, unified.err, "", "unify", deviceCtxs, None)
             ELSE LET cfg == unified.context.Config
                  IN  IF verifyConfigs(cfg) # <<>>
                      THEN DeviceReturn(C, "VerifyError", "", "verify", deviceCtxs, cfg)
                      ELSE IF ~in.dataOk
                      THEN DeviceReturn(C, "DataError", "", "data", deviceCtxs, cfg)
                      ELSE [DeviceReturn(C, Nil, "", "commit", deviceCtxs, cfg)
                               EXCEPT !.Device = cfg]

\* The dynamic registration with the optional policy keeping the configs of
\* the calls that succeeded.
DeviceDynamic_OptionalKeepsFound(C, in, fileCtxs) ==
    IF C.Plugin = None
    THEN DeviceReturn(C, "panic", "", "dynamic", fileCtxs, None)
    ELSE LET multiErr == RegistrarErrors(in.registered)
             found == RegistrarCtxs(in.registered)
         IN  IF \E i \in 1..Len(multiErr) : ~IsNotFound(multiErr[i])
             THEN DeviceReturn(C, "MultiError", "", "dynamic", fileCtxs, None)
             ELSE CASE in.dynamicPolicy = "DeviceConfigDynamicRequired" ->
                          IF multiErr # <<>> \/ Len(found) = 0
                          THEN DeviceReturn(C, PolicyViolation, in.dynamicPolicy,
                                            "dynamic policy", fileCtxs, None)
                          ELSE DeviceCommit(C, in, fileCtxs \o found)
                    [] in.dynamicPolicy = "DeviceConfigDynamicOptional" ->
                          DeviceCommit(C, in, fileCtxs \o found)
                    [] in.dynamicPolicy = "DeviceConfigDynamicProhibited" ->
                          DeviceCommit(C, in, fileCtxs)
                    [] OTHER ->
                          DeviceReturn(C, PolicyViolation, in.dynamicPolicy,
                                       "dynamic policy", fileCtxs, None)

\* The dynamic registration and its policy.
DeviceDynamic(C, in, fileCtxs) ==
    IF C.Plugin = None
    THEN DeviceReturn(C, "panic", "", "dynamic", fileCtxs, None)
    ELSE LET multiErr == RegistrarErrors(in.registered)
             found == RegistrarCtxs(in.registered)
         IN  IF \E i \in 1..Len(multiErr) : ~IsNotFound(multiErr[i])
             THEN DeviceReturn(C, "MultiError", "", "dynamic", fileCtxs, None)
             ELSE CASE in.dynamicPolicy = "DeviceConfigDynamicRequired" ->
                          IF multiErr # <<>> \/ Len(found) = 0
                          THEN DeviceReturn(C, PolicyViolation, in.dynamicPolicy,
                                            "dynamic policy", fileCtxs, None)
                          ELSE DeviceCommit(C, in, fileCtxs \o found)
                    [] in.dynamicPolicy = "DeviceConfigDynamicOptional" ->
                          DeviceCommit(C, in, fileCtxs \o (IF multiErr # <<>> THEN <<>> ELSE found))
                    [] in.dynamicPolicy = "DeviceConfigDynamicProhibited" ->
                          DeviceCommit(C, in, fileCtxs)
                    [] OTHER ->
                          DeviceReturn(C, PolicyViolation, in.dynamicPolicy,
                                       "dynamic policy", fileCtxs, None)

\* The switch on the device config file policy: whether the stage returns a
\* policy violation, and the file contexts that survive.
DeviceFilePolicy_RequiredTolerant(policy, err, fileCtxs) ==
    CASE policy = "DeviceConfigFileRequired" -> [violation |-> FALSE, fileCtxs |-> fileCtxs]
      [] policy = "DeviceConfigFileOptional" ->
            [violation |-> FALSE, fileCtxs |-> IF err # Nil THEN <<>> ELSE fileCtxs]
      [] policy = "DeviceConfigFileProhibited" -> [violation |-> FALSE, fileCtxs |-> <<>>]
      [] OTHER -> [violation |-> TRUE, fileCtxs |-> <<>>]

DeviceFilePolicy_OptionalStrict(policy, err, fileCtxs) ==
    CASE policy = "DeviceConfigFileRequired" -> [violation |-> err # Nil, fileCtxs |-> fileCtxs]
      [] policy = "DeviceConfigFileOptional" -> [violation |-> err # Nil, fileCtxs |-> fileCtxs]
      [] policy = "DeviceConfigFileProhibited" -> [violation |-> FALSE, fileCtxs |-> <<>>]
      [] OTHER -> [violation |-> TRUE, fileCtxs |-> <<>>]

DeviceFilePolicy_ProhibitedKeeps(policy, err, fileCtxs) ==
    CASE policy = "DeviceConfigFileRequired" -> [violation |-> err # Nil, fileCtxs |-> fileCtxs]
      [] policy = "DeviceConfigFileOptional" ->
            [violation |-> FALSE, fileCtxs |-> IF err # Nil THEN <<>> ELSE fileCtxs]
      [] policy = "DeviceConfigFileProhibited" -> [violation |-> FALSE, fileCtxs |-> fileCtxs]
      [] OTHER -> [violation |-> TRUE, fileCtxs |-> <<>>]

DeviceFilePolicy(policy, err, fileCtxs) ==
    CASE policy = "DeviceConfigFileRequired" -> [violation |-> err # Nil, fileCtxs |-> fileCtxs]
      [] policy = "DeviceConfigFileOptional" ->
            [violation |-> FALSE, fileCtxs |-> IF err # Nil THEN <<>> ELSE fileCtxs]
      [] policy = "DeviceConfigFileProhibited" -> [violation |-> FALSE, fileCtxs |-> <<>>]
      [] OTHER -> [violation |-> TRUE, fileCtxs |-> <<>>]

processDeviceConfigs(C, in) ==
    LET err == in.loaded.err
        checked == DeviceFilePolicy(in.filePolicy, err, in.loaded.ctxs)
    IN  IF err # Nil /\ ~IsNotFound(err)
        THEN DeviceReturn(C, err, "", "load", <<>>, None)
        ELSE IF checked.violation
        THEN DeviceReturn(C, PolicyViolation, in.filePolicy, "file policy", <<>>, None)
        ELSE DeviceDynamic(C, in, checked.fileCtxs)

\* ---------------------------------------------------------------------------
\* processPluginConfig
\* ---------------------------------------------------------------------------
PluginReturn(C, err, policyName, ctx) ==
    [stage |-> "plugin", err |-> err, policy |-> policyName, pluginCtx |-> ctx,
     Plugin |-> C.Plugin]

\* The validation of the chosen context and the commit.
PluginCommit(C, pluginCtx) ==
    IF Validate(pluginCtx) # <<>>
    THEN PluginReturn(C, "ValidationError", "", pluginCtx)
    ELSE [PluginReturn(C, Nil, "", pluginCtx) EXCEPT !.Plugin = pluginCtx.Config]

\* The switch on the plugin config file policy: the error it returns, or the
\* context that goes on to validation.
PluginFilePolicy_ProhibitedUsesFile(C, in) ==
    LET err == in.loaded.err
    IN  CASE in.filePolicy = "PluginConfigFileRequired" ->
               IF err # Nil THEN [err |-> PolicyViolation, ctx |-> None]
               ELSE [err |-> Nil, ctx |-> in.loaded.ctx]
          [] in.filePolicy = "PluginConfigFileOptional" ->
               IF err = Nil THEN [err |-> Nil, ctx |-> in.loaded.ctx]
               ELSE IF in.defaultErr THEN [err |-> "DefaultConfigError", ctx |-> None]
               ELSE [err |-> Nil,
                     ctx |-> NewConfigContext("default", "PluginConfig", NewDefaultPluginConfig)]
          [] in.filePolicy = "PluginConfigFileProhibited" ->
               IF err = Nil THEN [err |-> Nil, ctx |-> in.loaded.ctx]
               ELSE IF C.Plugin = None THEN [err |-> PolicyViolation, ctx |-> None]
               ELSE [err |-> Nil, ctx |-> NewConfigContext("user defined", "PluginConfig", C.Plugin)]
          [] OTHER -> [err |-> PolicyViolation, ctx |-> None]

PluginFilePolicy(C, in) ==
    LET err == in.loaded.err
    IN  CASE in.filePolicy = "PluginConfigFileRequired" ->
               IF err # Nil THEN [err |-> PolicyViolation, ctx |-> None]
               ELSE [err |-> Nil, ctx |-> in.loaded.ctx]
          [] in.filePolicy = "PluginConfigFileOptional" ->
               IF err = Nil THEN [err |-> Nil, ctx |-> in.loaded.ctx]
               ELSE IF in.defaultErr THEN [err |-> "DefaultConfigError", ctx |-> None]
               ELSE [err |-> Nil,
                     ctx |-> NewConfigContext("default", "PluginConfig", NewDefaultPluginConfig)]
          [] in.filePolicy = "PluginConfigFileProhibited" ->
               IF C.Plugin = None THEN [err |-> PolicyViolation, ctx |-> None]
               ELSE [err |-> Nil, ctx |-> NewConfigContext("user defined", "PluginConfig", C.Plugin)]
          [] OTHER -> [err |-> PolicyViolation, ctx |-> None]

processPluginConfig(C, in) ==
    LET err == in.loaded.err
        checked == PluginFilePolicy(C, in)
    IN  IF err # Nil /\ ~IsNotFound(err)
        THEN PluginReturn(C, err, "", None)
        ELSE IF checked.err = PolicyViolation
        THEN PluginReturn(C, PolicyViolation, in.filePolicy, None)
        ELSE IF checked.err # Nil
        THEN PluginReturn(C, checked.err, "", None)
        ELSE PluginCommit(C, checked.ctx)

\* ---------------------------------------------------------------------------
\* processOutputTypeConfig
\* ---------------------------------------------------------------------------
TypeReturn(err, policyName, outputs) ==
    [stage |-> "type", err |-> err, policy |-> policyName, outputs |-> outputs]

\* The validation loop: the first context that fails validation ends the stage.
TypeCollect(outputTypeCtxs) ==
    IF \E i \in 1..Len(outputTypeCtxs) : Validate(outputTypeCtxs[i]) # <<>>
    THEN TypeReturn("ValidationError", "", <<>>)
    ELSE TypeReturn(Nil, "", [i \in 1..Len(outputTypeCtxs) |-> outputTypeCtxs[i].Config])

\* The switch on the output type config file policy.
TypeFilePolicy(policy, err, outputTypeCtxs) ==
    CASE policy = "TypeConfigFileRequired" ->
            [violation |-> err # Nil, outputTypeCtxs |-> outputTypeCtxs]
      [] policy = "TypeConfigFileOptional" ->
            [violation |-> FALSE,
             outputTypeCtxs |-> IF err # Nil THEN <<>> ELSE outputTypeCtxs]
      [] policy = "TypeConfigFileProhibited" ->
            [violation |-> FALSE,
             outputTypeCtxs |-> IF err = Nil /\ Len(outputTypeCtxs) > 0
                                THEN <<>> ELSE outputTypeCtxs]
      [] OTHER -> [violation |-> TRUE, outputTypeCtxs |-> <<>>]

processOutputTypeConfig(in) ==
    LET err == in.loaded.err
        checked == TypeFilePolicy(in.filePolicy, err, in.loaded.ctxs)
    IN  IF err # Nil /\ ~IsNotFound(err)
        THEN TypeReturn(err, "", <<>>)
        ELSE IF checked.violation
        THEN TypeReturn(PolicyViolation, in.filePolicy, <<>>)
        ELSE TypeCollect(checked.outputTypeCtxs)

\* ---------------------------------------------------------------------------
\* The contexts unifyDeviceConfigs is exercised with
\* ---------------------------------------------------------------------------
L1 == Location("r1b1", "rack1", "board1")
L2 == Location("r2b2", "rack2", "board2")
L1x == Location("r1b1", "rack9", "board9")

I1 == Instance("i1", "r1b1")
I2 == Instance("i2", "r2b2")
I3 == Instance("i3", "r1b1")
I4 == Instance("i4", "r2b2")
I5 == Instance("i5", "r1b1")

DevCtx(source, config) == NewConfigContext(source, "DeviceConfig", config)

UnifyConfigs ==
    { DeviceConfig(V10, <<L1>>, <<DeviceKind("A", "m1", <<I1>>)>>),
      DeviceConfig(V10, <<L2>>, <<DeviceKind("A", "m1", <<I2, I5>>)>>),
      DeviceConfig(V20, <<L1x>>, <<DeviceKind("A", "m2", <<I3>>)>>),
      DeviceConfig(V15, <<>>, <<DeviceKind("B", "m1", <<I4>>)>>),
      DeviceConfig(V10, <<>>, <<>>),
      DeviceConfig(V20, <<L2, L1>>, <<DeviceKind("B", "m1", <<I4>>), DeviceKind("A", "m1", <<I2>>)>>),
      DeviceConfig(V10, <<>>, <<DeviceKind("A", "m1", <<I1>>), DeviceKind("A", "m1", <<I2>>)>>) }

NotADeviceCtx ==
    NewConfigContext("file", "PluginConfig", PluginConfig(V10, "plugin", <<>>))

UnifyCtxs == {DevCtx("file", c) : c \in UnifyConfigs} \cup {NotADeviceCtx}

RECURSIVE SeqsUpTo(_, _)
SeqsUpTo(S, n) ==
    IF n = 0 THEN {<<>>}
    ELSE LET shorter == SeqsUpTo(S, n - 1)
         IN  shorter \cup {Append(s, x) : s \in {t \in shorter : Len(t) = n - 1}, x \in S}

\* ---------------------------------------------------------------------------
\* What the stages meet: policies, files on disk, registrar answers
\* ---------------------------------------------------------------------------
PluginFilePolicies ==
    {"PluginConfigFileRequired", "PluginConfigFileOptional", "PluginConfigFileProhibited"}
DeviceFilePolicies ==
    {"DeviceConfigFileRequired", "DeviceConfigFileOptional", "DeviceConfigFileProhibited"}
DeviceDynamicPolicies ==
    {"DeviceConfigDynamicRequired", "DeviceConfigDynamicOptional", "DeviceConfigDynamicProhibited"}
TypeFilePolicies ==
    {"TypeConfigFileRequired", "TypeConfigFileOptional", "TypeConfigFileProhibited"}

LoadErrors == {ConfigsNotFound, LoadError}

L3 == Location("r3b3", "rack3", "board3")
I6 == Instance("i6", "r3b3")
I7 == Instance("i7", "r9b9")

\* Device configs found in files: two that unify (with different majors), and
\* one without a version.
FileDeviceConfigs ==
    { DeviceConfig(V10, <<L1>>, <<DeviceKind("A", "m1", <<I1>>)>>),
      DeviceConfig(V20, <<L2>>, <<DeviceKind("A", "m1", <<I2>>)>>),
      DeviceConfig(VNone, <<>>, <<>>) }

\* Device configs the registrar hands back: the second one names a location
\* that is declared nowhere.
DynamicDeviceConfigs ==
    { DeviceConfig(V10, <<L3>>, <<DeviceKind("A", "m1", <<I6>>)>>),
      DeviceConfig(V15, <<>>, <<DeviceKind("B", "m1", <<I7>>)>>) }

DynamicData == {"d1"}

FilePluginConfigs ==
    {PluginConfig(V10, "file", d) : d \in SeqsUpTo(DynamicData, MaxDynamic)}
        \cup {PluginConfig(VNone, "file", <<>>)}

ManualPluginConfigs ==
    {PluginConfig(V10, "manual", d) : d \in SeqsUpTo(DynamicData, MaxDynamic)}
        \cup {PluginConfig(VNone, "manual", <<>>)}

OutputType(version, name) == [Version |-> version, Name |-> name]

FileOutputTypes == {OutputType(V10, "temperature"), OutputType(VNone, "humidity")}

DeviceLoaderResults ==
    {[err |-> e, ctxs |-> <<>>] : e \in LoadErrors}
        \cup {[err |-> Nil, ctxs |-> [i \in 1..Len(cs) |-> DevCtx("file", cs[i])]] :
                 cs \in SeqsUpTo(FileDeviceConfigs, MaxFileCtxs)}

PluginLoaderResults ==
    {[err |-> e, ctx |-> None] : e \in LoadErrors}
        \cup {[err |-> Nil, ctx |-> NewConfigContext("file", "PluginConfig", c)] :
                 c \in FilePluginConfigs}

TypeLoaderResults ==
    {[err |-> e, ctxs |-> <<>>] : e \in LoadErrors}
        \cup {[err |-> Nil, ctxs |-> [i \in 1..Len(ts) |->
                                         NewConfigContext("file", "OutputType", ts[i])]] :
                 ts \in SeqsUpTo(FileOutputTypes, MaxFileCtxs)}

\* NewDefaultPluginConfig returns the default config or an error.
DefaultConfigAnswers == BOOLEAN

\* One registrar call: an error, or the configs it registered.
RegistrarAnswers ==
    {[err |-> e, cfgs |-> <<>>] : e \in LoadErrors}
        \cup {[err |-> Nil, cfgs |-> cs] : cs \in SeqsUpTo(DynamicDeviceConfigs, 1)}

\* The answers to the calls made for the entries of DynamicRegistration.Config.
RegistrarResults(C) ==
    IF C.Plugin = None THEN {<<>>}
    ELSE {r \in SeqsUpTo(RegistrarAnswers, MaxDynamic) :
             Len(r) = Len(C.Plugin.DynamicRegistration)}

\* ---------------------------------------------------------------------------
\* The earlier plugin configuration: PluginConfig, Merge, GetDefaultConfig,
\* ConfigurePlugin
\* ---------------------------------------------------------------------------
\* The PluginConfig struct of the earlier config.go.
SDKPluginConfig(name, version, debug, writeBufferSize, writesPerLoop, loopDelay, readBufferSize, transactionTTL) ==
    [Name |-> name, Version |-> version, Debug |-> debug,
     WriteBufferSize |-> writeBufferSize, WritesPerLoop |-> writesPerLoop,
     LoopDelay |-> loopDelay, ReadBufferSize |-> readBufferSize,
     TransactionTTL |-> transactionTTL]

DefaultReadBufferSize == 100
DefaultWriteBufferSize == 100
DefaultWritesPerLoop == 5
DefaultTransactionTTL == 60 * 5

GetDefaultConfig ==
    SDKPluginConfig("", "", FALSE, DefaultWriteBufferSize, DefaultWritesPerLoop, 0,
                    DefaultReadBufferSize, DefaultTransactionTTL)

\* Merge with the name and version assigned before the required-field check.
Merge_AssignsBeforeCheck(c, config) ==
    LET named == [c EXCEPT !.Name = config.Name, !.Version = config.Version]
    IN  IF config.Name = "" \/ config.Version = ""
        THEN [err |-> "Bad plugin configuration", c |-> named]
        ELSE [err |-> Nil,
              c |-> [named EXCEPT
                        !.ReadBufferSize = IF config.ReadBufferSize # 0
                                           THEN config.ReadBufferSize ELSE @,
                        !.WriteBufferSize = IF config.WriteBufferSize # 0
                                            THEN config.WriteBufferSize ELSE @,
                        !.WritesPerLoop = IF config.WritesPerLoop # 0
                                          THEN config.WritesPerLoop ELSE @,
                        !.TransactionTTL = IF config.TransactionTTL # 0
                                           THEN config.TransactionTTL ELSE @,
                        !.LoopDelay = config.LoopDelay,
                        !.Debug = config.Debug]]

\* Merge with the transaction TTL assigned without the zero check.
Merge_AssignsZeroTTL(c, config) ==
    IF config.Name = "" \/ config.Version = ""
    THEN [err |-> "Bad plugin configuration", c |-> c]
    ELSE [err |-> Nil,
          c |-> [Name |-> config.Name,
                 Version |-> config.Version,
                 ReadBufferSize |-> IF config.ReadBufferSize # 0
                                    THEN config.ReadBufferSize ELSE c.ReadBufferSize,
                 WriteBufferSize |-> IF config.WriteBufferSize # 0
                                     THEN config.WriteBufferSize ELSE c.WriteBufferSize,
                 WritesPerLoop |-> IF config.WritesPerLoop # 0
                                   THEN config.WritesPerLoop ELSE c.WritesPerLoop,
                 TransactionTTL |-> config.TransactionTTL,
                 LoopDelay |-> config.LoopDelay,
                 Debug |-> config.Debug]]

\* c.Merge(config): the error returned and the receiver after the call.
Merge(c, config) ==
    IF config.Name = "" \/ config.Version = ""
    THEN [err |-> "Bad plugin configuration", c |-> c]
    ELSE [err |-> Nil,
          c |-> [Name |-> config.Name,
                 Version |-> config.Version,
                 ReadBufferSize |-> IF config.ReadBufferSize # 0
                                    THEN config.ReadBufferSize ELSE c.ReadBufferSize,
                 WriteBufferSize |-> IF config.WriteBufferSize # 0
                                     THEN config.WriteBufferSize ELSE c.WriteBufferSize,
                 WritesPerLoop |-> IF config.WritesPerLoop # 0
                                   THEN config.WritesPerLoop ELSE c.WritesPerLoop,
                 TransactionTTL |-> IF config.TransactionTTL # 0
                                    THEN config.TransactionTTL ELSE c.TransactionTTL,
                 LoopDelay |-> config.LoopDelay,
                 Debug |-> config.Debug]]

\* ConfigurePlugin(config): Config.Merge(config) with its error dropped; the
\* function returns nil.
ConfigurePlugin(c, config) ==
    LET merged == Merge(c, config)
    IN  [err |-> Nil, merge |-> merged.err, Config |-> merged.c]

\* ---------------------------------------------------------------------------
\* ParseDeviceConfig: device instances read from the files of <dir>/device
\* ---------------------------------------------------------------------------
DeviceLocation(rack, board) == [Rack |-> rack, Board |-> board]

InstanceConfig(version, type, model, locations, devices) ==
    [Version |-> version, Type |-> type, Model |-> model,
     Locations |-> locations, Devices |-> devices]

\* The DeviceConfig struct of the earlier config.go: one device instance with
\* its location resolved.
InstanceDeviceConfig(version, type, model, location, data) ==
    [Version |-> version, Type |-> type, Model |-> model,
     Location |-> location, Data |-> data]

\* m[k] of a Go map: the zero value when the key is missing.
MapIndex(m, k, zero) == IF k \in DOMAIN m THEN m[k] ELSE zero

\* The loop over instanceCfg.Devices, from element n on.
RECURSIVE parseInstances(_, _, _)
parseInstances(instanceCfg, devices, n) ==
    IF n > Len(instanceCfg.Devices) THEN [devices |-> devices, err |-> Nil]
    ELSE LET data == instanceCfg.Devices[n]
             loc == MapIndex(data, "location", "")
         IN  IF loc = ""
             THEN [devices |-> devices, err |-> "No location defined for device."]
             ELSE LET location == MapIndex(instanceCfg.Locations, loc, DeviceLocation("", ""))
                      deviceCfg == InstanceDeviceConfig(instanceCfg.Version, instanceCfg.Type,
                                                        instanceCfg.Model, location, data)
                  IN  parseInstances(instanceCfg, Append(devices, deviceCfg), n + 1)

\* The loop over the files of the directory, from file n on.
RECURSIVE parseFiles(_, _, _)
parseFiles(files, devices, n) ==
    IF n > Len(files) THEN [devices |-> devices, err |-> Nil]
    ELSE LET f == files[n]
         IN  IF f.readErr THEN [devices |-> devices, err |-> "ReadFile"]
             ELSE IF f.yamlErr THEN [devices |-> devices, err |-> "Unmarshal"]
             ELSE LET r == parseInstances(f.instanceCfg, devices, 1)
                  IN  IF r.err # Nil THEN r
                      ELSE parseFiles(files, r.devices, n + 1)

ParseDeviceConfig(dir) ==
    IF dir.statErr THEN [devices |-> <<>>, err |-> "Stat"]
    ELSE IF dir.readDirErr THEN [devices |-> <<>>, err |-> "ReadDir"]
    ELSE parseFiles(dir.files, <<>>, 1)

\* ---------------------------------------------------------------------------
\* The pipeline
\*
\* The stages share state only through Config: processPluginConfig writes
\* Config.Plugin, processDeviceConfigs reads it and writes Config.Device, and
\* processOutputTypeConfig touches neither.  A run prepares Config by hand
\* and then calls one stage; the plugin configs set by hand cover every
\* registration list the plugin stage can commit.
\* ---------------------------------------------------------------------------
NotCalled == [err |-> "not called", context |-> None, after |-> <<>>]

PipelineIdle ==
    /\ Config = [Plugin |-> None, Device |-> None]
    /\ call = [stage |-> "none"]
    /\ ret = [stage |-> "none", err |-> Nil]
    /\ done = {}

\* The scheduler has not started: empty queue and tracker, clock at 0.
SchedIdle ==
    /\ writeChannel = <<>>
    /\ transactions = <<>>
    /\ nextId = 1
    /\ now = 0
    /\ loop = [phase |-> "writes", taken |-> 0, current |-> 0]
    /\ rpc = [op |-> "none"]
    /\ reaper = [ran |-> FALSE]

FuncIdle ==
    /\ SDKConfig = GetDefaultConfig
    /\ arg = [fn |-> "none"]
    /\ out = [fn |-> "none"]

UnifyIdle ==
    /\ uin = <<>>
    /\ uout = NotCalled
    /\ uagain = NotCalled

Init ==
    /\ PipelineIdle
    /\ SchedIdle
    /\ UnifyIdle
    /\ FuncIdle

\* The plugin sets Config.Plugin by hand.
SetPluginConfig ==
    /\ done = {}
    /\ \E c \in ManualPluginConfigs : Config' = [Config EXCEPT !.Plugin = c]
    /\ UNCHANGED <<call, ret, done>>
    /\ UNCHANGED unifyVars
    /\ UNCHANGED funcVars
    /\ UNCHANGED schedVars

\* config.reset()
Reset ==
    /\ Config' = [Plugin |-> None, Device |-> None]
    /\ UNCHANGED <<call, ret, done>>
    /\ UNCHANGED unifyVars
    /\ UNCHANGED funcVars
    /\ UNCHANGED schedVars

ProcessPluginConfig ==
    /\ done = {}
    /\ \E p \in PluginFilePolicies, loaded \in PluginLoaderResults,
          defaultErr \in DefaultConfigAnswers :
          LET in == [stage |-> "plugin", filePolicy |-> p, loaded |-> loaded,
                     defaultErr |-> defaultErr, before |-> Config]
              r == processPluginConfig(Config, in)
          IN  /\ call' = in
              /\ ret' = r
              /\ Config' = [Config EXCEPT !.Plugin = r.Plugin]
    /\ done' = done \cup {"plugin"}
    /\ UNCHANGED unifyVars
    /\ UNCHANGED funcVars
    /\ UNCHANGED schedVars

ProcessDeviceConfigs ==
    /\ done = {}
    /\ \E fp \in DeviceFilePolicies, dp \in DeviceDynamicPolicies,
          loaded \in DeviceLoaderResults, registered \in RegistrarResults(Config),
          dataOk \in BOOLEAN :
          LET in == [stage |-> "device", filePolicy |-> fp, dynamicPolicy |-> dp,
                     loaded |-> loaded, registered |-> registered, dataOk |-> dataOk,
                     before |-> Config]
              r == processDeviceConfigs(Config, in)
          IN  /\ call' = in
              /\ ret' = r
              /\ Config' = [Config EXCEPT !.Device = r.Device]
    /\ done' = done \cup {"device"}
    /\ UNCHANGED unifyVars
    /\ UNCHANGED funcVars
    /\ UNCHANGED schedVars

ProcessOutputTypeConfig ==
    /\ done = {}
    /\ \E p \in TypeFilePolicies, loaded \in TypeLoaderResults :
          LET in == [stage |-> "type", filePolicy |-> p, loaded |-> loaded, before |-> Config]
          IN  /\ call' = in
              /\ ret' = processOutputTypeConfig(in)
    /\ done' = done \cup {"type"}
    /\ UNCHANGED Config
    /\ UNCHANGED unifyVars
    /\ UNCHANGED funcVars
    /\ UNCHANGED schedVars

Next ==
    \/ SetPluginConfig
    \/ Reset
    \/ ProcessPluginConfig
    \/ ProcessDeviceConfigs
    \/ ProcessOutputTypeConfig

Spec == Init /\ [][Next]_vars

\* ---------------------------------------------------------------------------
\* Properties of the config stages (checked under Spec)
\* ---------------------------------------------------------------------------
\* A step in which a stage ran: call' and ret' describe that run, Config is
\* the global before it and Config' the global after it.
StageStep == done' # done

RequiredPolicies ==
    {"PluginConfigFileRequired", "DeviceConfigFileRequired", "TypeConfigFileRequired"}
OptionalPolicies ==
    {"PluginConfigFileOptional", "DeviceConfigFileOptional", "TypeConfigFileOptional"}
ProhibitedPolicies ==
    {"PluginConfigFileProhibited", "DeviceConfigFileProhibited", "TypeConfigFileProhibited"}

\* The device stage got past both policy checks.
PastPolicies(r) == r.reached \in {"validate", "unify", "verify", "data", "commit"}

\* The device stage made its registrar calls.
RegistrarCalled(r, before) == r.reached \notin {"load", "file policy"} /\ before.Plugin # None

EmptyCurrentDeviceConfig == DeviceConfig(currentDeviceSchemeVersion, <<>>, <<>>)

\* C1: in each stage, a Required file policy with a loader that reports not
\* found makes the stage return a PolicyViolation naming that policy, and the
\* global Config is left as it was.
C1_RequiredAbsentIsViolation ==
    [][(StageStep /\ call'.filePolicy \in RequiredPolicies
                  /\ call'.loaded.err = ConfigsNotFound)
          => (/\ ret'.err = PolicyViolation
              /\ ret'.policy = call'.filePolicy
              /\ Config' = Config)]_vars

C1_Witness ==
    /\ ret.stage = "device"
    /\ call.filePolicy = "DeviceConfigFileRequired"
    /\ call.loaded.err = ConfigsNotFound
    /\ ret.err = PolicyViolation
    /\ call.before.Plugin # None
    /\ Config = call.before

\* C2: a loader error that is not a not-found error is the stage's error
\* whatever the policy, no policy is consulted and nothing is committed; a
\* registrar error that is not not-found makes processDeviceConfigs return the
\* multi-error.
C2_OtherErrorsShortCircuit ==
    [][StageStep =>
          /\ call'.loaded.err = LoadError =>
                (ret'.err = LoadError /\ ret'.policy = "" /\ Config' = Config)
          /\ (/\ call'.stage = "device"
              /\ RegistrarCalled(ret', Config)
              /\ \E i \in 1..Len(call'.registered) : call'.registered[i].err = LoadError)
                => (ret'.err = "MultiError" /\ Config' = Config)]_vars

C2_Witness ==
    /\ ret.stage = "device"
    /\ call.loaded.err = LoadError
    /\ call.filePolicy = "DeviceConfigFileProhibited"
    /\ call.before.Plugin # None
    /\ ret.err = LoadError
    /\ ret.reached = "load"

\* C3: an Optional file policy with a loader that reports not found does not
\* fail the stage for the absence: the plugin stage goes on with the default
\* plugin config (source "default"), the output-type stage returns an empty
\* list, the device stage goes on with no file contexts and, with no dynamic
\* contexts either, commits an empty DeviceConfig of the current scheme version
\* when the data validator accepts it.
C3_OptionalAbsentIsTolerated ==
    [][(StageStep /\ call'.filePolicy \in OptionalPolicies
                  /\ call'.loaded.err = ConfigsNotFound)
          => /\ ~(ret'.err = PolicyViolation /\ ret'.policy = call'.filePolicy)
             /\ ret'.err # ConfigsNotFound
             /\ (call'.stage = "plugin" /\ ~call'.defaultErr) =>
                   /\ ret'.pluginCtx =
                          NewConfigContext("default", "PluginConfig", NewDefaultPluginConfig)
                   /\ ret'.err = Nil => Config'.Plugin = NewDefaultPluginConfig
             /\ call'.stage = "type" => (ret'.err = Nil /\ ret'.outputs = <<>>)
             /\ call'.stage = "device" =>
                   /\ \A i \in 1..Len(ret'.deviceCtxs) : ret'.deviceCtxs[i].Source # "file"
                   /\ (PastPolicies(ret') /\ ret'.deviceCtxs = <<>> /\ call'.dataOk) =>
                         (ret'.err = Nil /\ Config'.Device = EmptyCurrentDeviceConfig)]_vars

C3_Witness ==
    /\ ret.stage = "device"
    /\ call.filePolicy = "DeviceConfigFileOptional"
    /\ call.loaded.err = ConfigsNotFound
    /\ ret.deviceCtxs = <<>>
    /\ ret.err = Nil
    /\ Config.Device = EmptyCurrentDeviceConfig

\* Nothing of the file contexts is in the config: no location, no kind, no
\* instance.
NoFileContent(fileCtxs, cfg) ==
    \A i \in 1..Len(fileCtxs) :
        LET file == fileCtxs[i].Config
        IN  /\ \A a \in 1..Len(file.Locations), b \in 1..Len(cfg.Locations) :
                   file.Locations[a] # cfg.Locations[b]
            /\ \A a \in 1..Len(file.Devices), b \in 1..Len(cfg.Devices) :
                   /\ file.Devices[a] # cfg.Devices[b]
                   /\ \A m \in 1..Len(file.Devices[a].Instances),
                         n \in 1..Len(cfg.Devices[b].Instances) :
                         file.Devices[a].Instances[m] # cfg.Devices[b].Instances[n]

\* C4: with a Prohibited device (resp. output-type) file policy and files that
\* load without error, the stage does not fail on their presence and uses none
\* of their content: nothing from a file is in the committed DeviceConfig
\* (resp. the returned output-type list is empty).
C4_ProhibitedFilesIgnored ==
    [][(StageStep /\ call'.stage \in {"device", "type"}
                  /\ call'.filePolicy \in ProhibitedPolicies
                  /\ call'.loaded.err = Nil
                  /\ Len(call'.loaded.ctxs) > 0)
          => /\ ~(ret'.err = PolicyViolation /\ ret'.policy = call'.filePolicy)
             /\ call'.stage = "type" => (ret'.err = Nil /\ ret'.outputs = <<>>)
             /\ call'.stage = "device" =>
                   /\ \A i \in 1..Len(ret'.deviceCtxs) : ret'.deviceCtxs[i].Source # "file"
                   /\ ret'.err = Nil => NoFileContent(call'.loaded.ctxs, Config'.Device)]_vars

C4_Witness ==
    /\ ret.stage = "device"
    /\ call.filePolicy = "DeviceConfigFileProhibited"
    /\ call.loaded.err = Nil
    /\ Len(call.loaded.ctxs) = 2
    /\ ret.err = Nil
    /\ Config.Device # None
    /\ Config.Device.Locations = <<L3>>

\* C5: with a Prohibited plugin file policy, a nil Config.Plugin makes
\* processPluginConfig fail with a PolicyViolation whether or not a file
\* exists; a Config.Plugin set by hand is the config that is validated (source
\* "user defined") and committed, the file's content never being used.
C5_ProhibitedPluginFile ==
    [][(StageStep /\ call'.stage = "plugin"
                  /\ call'.filePolicy = "PluginConfigFileProhibited"
                  /\ call'.loaded.err \in {Nil, ConfigsNotFound})
          => IF Config.Plugin = None
             THEN /\ ret'.err = PolicyViolation
                  /\ ret'.policy = call'.filePolicy
                  /\ Config' = Config
             ELSE /\ ret'.pluginCtx =
                         NewConfigContext("user defined", "PluginConfig", Config.Plugin)
                  /\ ret'.err \in {Nil, "ValidationError"}
                  /\ Config' = Config]_vars

C5_Witness ==
    /\ ret.stage = "plugin"
    /\ call.filePolicy = "PluginConfigFileProhibited"
    /\ call.loaded.err = Nil
    /\ call.before.Plugin # None
    /\ ret.err = Nil
    /\ ret.pluginCtx.Source = "user defined"
    /\ Config.Plugin = call.before.Plugin
    /\ Config.Plugin # call.loaded.ctx.Config

\* C6: a stage writes the global only as its last step: on an error Config is
\* what it was before the call; on success Config.Device (resp. Config.Plugin)
\* is the config that passed validation, unification, verification and the
\* data validator (resp. validation).
C6_CommitIsLast ==
    [][StageStep =>
          /\ call'.stage = "device" =>
                IF ret'.err # Nil THEN Config' = Config
                ELSE /\ Config'.Plugin = Config.Plugin
                     /\ Config'.Device = ret'.cfg
                     /\ Config'.Device =
                            (IF ret'.deviceCtxs = <<>> THEN EmptyCurrentDeviceConfig
                             ELSE Unified(unifyDeviceConfigs(ret'.deviceCtxs)).Config)
                     /\ \A i \in 1..Len(ret'.deviceCtxs) : Validate(ret'.deviceCtxs[i]) = <<>>
                     /\ verifyConfigs(Config'.Device) = <<>>
                     /\ call'.dataOk
          /\ call'.stage = "plugin" =>
                IF ret'.err # Nil THEN Config' = Config
                ELSE /\ Config'.Device = Config.Device
                     /\ Config'.Plugin = ret'.pluginCtx.Config
                     /\ Validate(ret'.pluginCtx) = <<>>]_vars

C6_Witness ==
    /\ ret.stage = "device"
    /\ ret.err = "VerifyError"
    /\ ret.reached = "verify"
    /\ ret.cfg # None
    /\ Len(ret.deviceCtxs) >= 2
    /\ Config = call.before
    /\ Config.Device = None

\* Two of the contexts carry versions with different major components.
MixedMajors(ctxs) ==
    \E i, j \in 1..Len(ctxs) :
        /\ GetVersion(ctxs[i].Config).err = Nil
        /\ GetVersion(ctxs[j].Config).err = Nil
        /\ ~IsEqual(GetVersion(ctxs[i].Config).version, GetVersion(ctxs[j].Config).version)

\* C9: when the contexts being unified carry versions with different major
\* components, processDeviceConfigs fails and commits no unified config.
C9_MixedMajorsRejected ==
    (ret.stage = "device" /\ PastPolicies(ret) /\ MixedMajors(ret.deviceCtxs))
        => (ret.err # Nil /\ ret.Device = call.before.Device)

\* The location names the contexts declare, in order.
RECURSIVE DeclaredLocationNames(_)
DeclaredLocationNames(ctxs) ==
    IF ctxs = <<>> THEN <<>>
    ELSE [i \in 1..Len(ctxs[1].Config.Locations) |-> ctxs[1].Config.Locations[i].Name]
         \o DeclaredLocationNames(Tail(ctxs))

HasDuplicate(names) == \E i, j \in 1..Len(names) : i # j /\ names[i] = names[j]

\* C12: processDeviceConfigs never commits a DeviceConfig with two locations
\* of the same name; when the contexts that reach unification together
\* declare a location name twice, the stage returns a validation error and
\* Config.Device is not set.
C12_NoDuplicateLocationsCommitted ==
    /\ Config.Device # None =>
           ~HasDuplicate([i \in 1..Len(Config.Device.Locations) |->
                             Config.Device.Locations[i].Name])
    /\ (ret.stage = "device" /\ PastPolicies(ret)
           /\ HasDuplicate(DeclaredLocationNames(ret.deviceCtxs))) =>
           /\ ret.err \in {"ValidationError", "VerifyError"}
           /\ Config.Device = None

C12_Witness ==
    /\ ret.stage = "device"
    /\ ret.reached = "verify"
    /\ Len(ret.deviceCtxs) = 2
    /\ ~HasDuplicate(DeclaredLocationNames(<<ret.deviceCtxs[1]>>))
    /\ ~HasDuplicate(DeclaredLocationNames(<<ret.deviceCtxs[2]>>))
    /\ HasDuplicate(DeclaredLocationNames(ret.deviceCtxs))
    /\ ret.err = "VerifyError"
    /\ Config.Device = None

\* The file policy check of the call fails: files are required and none was
\* found.
FilePolicyFails(in) ==
    in.filePolicy = "DeviceConfigFileRequired" /\ in.loaded.err = ConfigsNotFound

\* The dynamic policy check of the call would fail: registration is required
\* and a registrar call failed or no config was registered.
DynamicPolicyFails(in) ==
    /\ in.dynamicPolicy = "DeviceConfigDynamicRequired"
    /\ \/ \E i \in 1..Len(in.registered) : in.registered[i].err # Nil
       \/ \A i \in 1..Len(in.registered) : in.registered[i].cfgs = <<>>

\* C25: in processDeviceConfigs the steps run in a fixed order and the first
\* failure stops the rest: file policy check, dynamic policy check, scheme
\* validation of every surviving context, unification, verification of the
\* unified config, the data validator, and the commit; unification is never
\* run on a context that failed scheme validation and the data validator
\* never sees a config that failed verification.
C25_StepsInOrder ==
    ret.stage = "device" =>
        /\ FilePolicyFails(call) =>
               /\ ret.reached = "file policy"
               /\ ret.err = PolicyViolation
               /\ ret.policy = call.filePolicy
        /\ ret.reached = "dynamic policy" =>
               /\ ~FilePolicyFails(call)
               /\ DynamicPolicyFails(call)
               /\ ret.policy = call.dynamicPolicy
        /\ (PastPolicies(ret) /\ \E i \in 1..Len(ret.deviceCtxs) : Validate(ret.deviceCtxs[i]) # <<>>) =>
               /\ ret.reached = "validate"
               /\ ret.err = "ValidationError"
        /\ ret.reached \in {"file policy", "dynamic policy", "validate"} => ret.cfg = None
        /\ ret.reached \in {"unify", "verify", "data", "commit"} =>
               \A i \in 1..Len(ret.deviceCtxs) : Validate(ret.deviceCtxs[i]) = <<>>
        /\ ret.reached = "verify" => (verifyConfigs(ret.cfg) # <<>> /\ ret.err = "VerifyError")
        /\ ret.reached \in {"data", "commit"} => verifyConfigs(ret.cfg) = <<>>
        /\ ret.reached = "data" => (~call.dataOk /\ ret.err = "DataError")
        /\ ret.reached = "commit" => (call.dataOk /\ ret.err = Nil /\ ret.Device = ret.cfg)
        /\ ret.reached # "commit" => (ret.err # Nil /\ ret.Device = call.before.Device)

C25_Witness ==
    /\ ret.stage = "device"
    /\ ret.reached = "verify"
    /\ ~call.dataOk
    /\ Len(ret.deviceCtxs) = 2
    /\ verifyConfigs(ret.cfg) # <<>>
    /\ ret.err = "VerifyError"

IsDynamicCtx(ctx) == ctx.Source = "dynamic registration"

\* No dynamically registered config is among the contexts of the stage.
NoDynamicContributes(r) == \A i \in 1..Len(r.deviceCtxs) : ~IsDynamicCtx(r.deviceCtxs[i])

\* Contexts from files precede the dynamic contexts.
FilesPrecedeDynamic(r) ==
    \A i, j \in 1..Len(r.deviceCtxs) :
        (IsDynamicCtx(r.deviceCtxs[i]) /\ ~IsDynamicCtx(r.deviceCtxs[j])) => j < i

SomeRegistrarCallFailed(in) == \E i \in 1..Len(in.registered) : in.registered[i].err # Nil

SomeRegistrarCallNotFound(in) ==
    \E i \in 1..Len(in.registered) : in.registered[i].err = ConfigsNotFound

SomeRegistrarCallBroke(in) ==
    \E i \in 1..Len(in.registered) : in.registered[i].err \notin {Nil, ConfigsNotFound}

NoConfigRegistered(in) == \A i \in 1..Len(in.registered) : in.registered[i].cfgs = <<>>

\* The parts of C29 on the optional and prohibited policies and on the order
\* of the unification input.
DynamicOptionalProhibitedOrder ==
    (ret.stage = "device" /\ RegistrarCalled(ret, call.before)) =>
        /\ (call.dynamicPolicy = "DeviceConfigDynamicOptional" /\ SomeRegistrarCallNotFound(call)) =>
               NoDynamicContributes(ret)
        /\ call.dynamicPolicy = "DeviceConfigDynamicProhibited" => NoDynamicContributes(ret)
        /\ FilesPrecedeDynamic(ret)

\* C29 as claimed: under DeviceConfigDynamicRequired the stage fails with a
\* PolicyViolation whenever any registrar call failed or the calls produced no
\* config; under DeviceConfigDynamicOptional, when any registrar call failed
\* with not-found, no dynamically registered config contributes; under
\* DeviceConfigDynamicProhibited none ever contributes; contexts from files
\* precede dynamic contexts in the unification input.
C29_DynamicAllOrNothing ==
    /\ (ret.stage = "device" /\ RegistrarCalled(ret, call.before)
           /\ call.dynamicPolicy = "DeviceConfigDynamicRequired"
           /\ (SomeRegistrarCallFailed(call) \/ NoConfigRegistered(call))) =>
           ret.err = PolicyViolation
    /\ DynamicOptionalProhibitedOrder

\* C29 amended: under DeviceConfigDynamicRequired the stage fails with a
\* PolicyViolation naming the dynamic policy whenever a registrar call failed
\* with not-found or the calls produced no config, and no call failed with
\* another error; a call that failed with another error makes the stage
\* return the collected errors, under every policy.  The parts on the
\* optional and prohibited policies and on the order are as claimed.
C29_DynamicAllOrNothing_Amended ==
    /\ (ret.stage = "device" /\ RegistrarCalled(ret, call.before)) =>
           /\ SomeRegistrarCallBroke(call) =>
                  (ret.err = "MultiError" /\ NoDynamicContributes(ret))
           /\ (~SomeRegistrarCallBroke(call)
                  /\ call.dynamicPolicy = "DeviceConfigDynamicRequired"
                  /\ (SomeRegistrarCallFailed(call) \/ NoConfigRegistered(call))) =>
                  (ret.err = PolicyViolation /\ ret.policy = call.dynamicPolicy)
    /\ DynamicOptionalProhibitedOrder

C29_Witness ==
    /\ ret.stage = "device"
    /\ RegistrarCalled(ret, call.before)
    /\ call.dynamicPolicy = "DeviceConfigDynamicOptional"
    /\ Len(call.registered) = 2
    /\ call.registered[1].err = Nil
    /\ call.registered[1].cfgs # <<>>
    /\ call.registered[2].err = ConfigsNotFound
    /\ Len(call.loaded.ctxs) = 1
    /\ ret.err = Nil
    /\ Len(ret.deviceCtxs) = 1
    /\ NoDynamicContributes(ret)

\* ---------------------------------------------------------------------------
\* Unification on its own: the input list is drawn, then unified, then the
\* returned context is unified once more as a one-element list.
\* ---------------------------------------------------------------------------
UnifyInit ==
    /\ PipelineIdle
    /\ SchedIdle
    /\ FuncIdle
    /\ uin \in SeqsUpTo(UnifyCtxs, MaxCtxs)
    /\ uout = NotCalled
    /\ uagain = NotCalled

Unify ==
    /\ uout = NotCalled
    /\ LET r == unifyDeviceConfigs(uin)
       IN  uout' = [err |-> r.err, context |-> Unified(r), after |-> DerefAll(r.heap)]
    /\ UNCHANGED <<uin, uagain>>
    /\ UNCHANGED pipelineVars
    /\ UNCHANGED funcVars
    /\ UNCHANGED schedVars

UnifyAgain ==
    /\ uout.err = Nil
    /\ uagain = NotCalled
    /\ LET r == unifyDeviceConfigs(<<uout.context>>)
       IN  uagain' = [err |-> r.err, context |-> Unified(r), after |-> DerefAll(r.heap)]
    /\ UNCHANGED <<uin, uout>>
    /\ UNCHANGED pipelineVars
    /\ UNCHANGED funcVars
    /\ UNCHANGED schedVars

UnifyNext == Unify \/ UnifyAgain

SpecUnify == UnifyInit /\ [][UnifyNext]_vars

\* ---------------------------------------------------------------------------
\* Properties of unification (checked under SpecUnify)
\* ---------------------------------------------------------------------------
UnifyCalled == uout.err # "not called"

AllDeviceConfigs(ctxs) == \A i \in 1..Len(ctxs) : IsDeviceConfig(ctxs[i])

KindNames(config) == {config.Devices[j].Name : j \in 1..Len(config.Devices)}

UniqueKindNames(config) ==
    \A j, k \in 1..Len(config.Devices) :
        config.Devices[j].Name = config.Devices[k].Name => j = k

\* The instances a config holds under a kind name (unique names assumed).
InstancesOf(config, name) ==
    IF name \in KindNames(config)
    THEN config.Devices[CHOOSE j \in 1..Len(config.Devices) : config.Devices[j].Name = name].Instances
    ELSE <<>>

RECURSIVE AllLocations(_, _)
AllLocations(ctxs, n) ==
    IF n = 0 THEN <<>> ELSE AllLocations(ctxs, n - 1) \o ctxs[n].Config.Locations

RECURSIVE AllInstances(_, _, _)
AllInstances(ctxs, name, n) ==
    IF n = 0 THEN <<>>
    ELSE AllInstances(ctxs, name, n - 1) \o InstancesOf(ctxs[n].Config, name)

C7Pre ==
    /\ UnifyCalled
    /\ Len(uin) >= 1
    /\ AllDeviceConfigs(uin)
    /\ \A i \in 1..Len(uin) : UniqueKindNames(uin[i].Config)

\* C7: for a non-empty list of device-config contexts with kind names unique
\* inside each context, unifyDeviceConfigs returns the first context's version,
\* the concatenation of all locations in context order, and exactly one kind
\* per distinct kind name holding the concatenation, in context order, of the
\* instances contributed under that name.
C7_UnifyConcatenates ==
    C7Pre =>
        /\ uout.err = Nil
        /\ uout.context.Config.Version = uin[1].Config.Version
        /\ uout.context.Config.Locations = AllLocations(uin, Len(uin))
        /\ UniqueKindNames(uout.context.Config)
        /\ KindNames(uout.context.Config) =
               UNION {KindNames(uin[i].Config) : i \in 1..Len(uin)}
        /\ \A name \in KindNames(uout.context.Config) :
               InstancesOf(uout.context.Config, name) = AllInstances(uin, name, Len(uin))

C7_Witness ==
    /\ C7Pre
    /\ Len(uin) = 3
    /\ Len(uout.context.Config.Locations) >= 3
    /\ \E name \in KindNames(uout.context.Config) :
           /\ Len(InstancesOf(uout.context.Config, name)) >= 3
           /\ \A i \in 1..3 : name \in KindNames(uin[i].Config)

\* Two contexts contribute a kind of the same name that differs in a field
\* other than Instances.
KindConflict(ctxs) ==
    \E i, j \in 1..Len(ctxs) :
        /\ i # j
        /\ \E a \in 1..Len(ctxs[i].Config.Devices), b \in 1..Len(ctxs[j].Config.Devices) :
              /\ ctxs[i].Config.Devices[a].Name = ctxs[j].Config.Devices[b].Name
              /\ ctxs[i].Config.Devices[a].Metadata # ctxs[j].Config.Devices[b].Metadata

\* C8: when two contexts contribute a kind of the same name that differs in a
\* field other than its instances, unification fails and produces no config.
C8_ConflictingKindsRejected ==
    (UnifyCalled /\ Len(uin) >= 2 /\ AllDeviceConfigs(uin) /\ KindConflict(uin)) =>
        (uout.err # Nil /\ uout.context = None)

EmptyDeviceConfig(config) == config.Locations = <<>> /\ config.Devices = <<>>

MergedEmptyIntoNonEmpty ==
    /\ UnifyCalled
    /\ Len(uin) = 2
    /\ AllDeviceConfigs(uin)
    /\ ~EmptyDeviceConfig(uin[1].Config)
    /\ EmptyDeviceConfig(uin[2].Config)

\* C10: unifying the one-element list that holds unify(X) returns a config
\* equal to unify(X), and merging an empty DeviceConfig into a non-empty one
\* leaves the non-empty one's locations, kinds and instances unchanged.
C10_UnifyIdempotent ==
    /\ uagain.err # "not called" => (uagain.err = Nil /\ uagain.context = uout.context)
    /\ MergedEmptyIntoNonEmpty =>
           /\ uout.err = Nil
           /\ uout.context.Config.Locations = uin[1].Config.Locations
           /\ uout.context.Config.Devices = uin[1].Config.Devices

C10_Witness ==
    /\ MergedEmptyIntoNonEmpty
    /\ uagain.err = Nil
    /\ uin[1].Config.Devices # <<>>
    /\ uin[1].Config.Locations # <<>>

\* C27: unifyDeviceConfigs modifies only the config held by the first input
\* context: the locations, device kinds and instance lists of every later
\* input context are the same after the call as before it.
C27_LaterContextsUntouched ==
    UnifyCalled => \A i \in 2..Len(uin) : uout.after[i] = uin[i]

\* C28: unifyDeviceConfigs returns an error exactly when the input list is
\* empty or contains a context that is not a device config, and when it
\* returns an error no input context has been modified.
C28_ErrorLeavesInputs ==
    UnifyCalled =>
        /\ uout.err # Nil <=> (Len(uin) = 0 \/ ~AllDeviceConfigs(uin))
        /\ uout.err # Nil => uout.after = uin

\* ---------------------------------------------------------------------------
\* ParseDeviceConfig on its own: the directory is drawn, then parsed
\* ---------------------------------------------------------------------------
MaxInstances == 2   \* entries of one file's devices list

\* The locations every drawn file declares.
FileLocations == [k \in {"r1b1"} |-> DeviceLocation("rack1", "board1")]

\* One entry of a devices list: naming a declared location, naming a location
\* declared nowhere, and naming none.
InstanceData ==
    { [k \in {"id", "location"} |-> IF k = "location" THEN "r1b1" ELSE "1"],
      [k \in {"id", "location"} |-> IF k = "location" THEN "r9b9" ELSE "2"],
      [k \in {"id"} |-> "3"] }

InstanceConfigs ==
    {InstanceConfig("1.0", "temperature", "m1", FileLocations, ds) :
        ds \in SeqsUpTo(InstanceData, MaxInstances)}

\* What reading one file of the directory gives.
DirFiles ==
    {[readErr |-> TRUE, yamlErr |-> FALSE, instanceCfg |-> None],
     [readErr |-> FALSE, yamlErr |-> TRUE, instanceCfg |-> None]}
        \cup {[readErr |-> FALSE, yamlErr |-> FALSE, instanceCfg |-> c] : c \in InstanceConfigs}

Dirs ==
    {[statErr |-> TRUE, readDirErr |-> FALSE, files |-> <<>>],
     [statErr |-> FALSE, readDirErr |-> TRUE, files |-> <<>>]}
        \cup {[statErr |-> FALSE, readDirErr |-> FALSE, files |-> fs] :
                 fs \in SeqsUpTo(DirFiles, MaxFileCtxs)}

ParseInit ==
    /\ PipelineIdle
    /\ SchedIdle
    /\ UnifyIdle
    /\ SDKConfig = GetDefaultConfig
    /\ arg \in {[fn |-> "ParseDeviceConfig", dir |-> d] : d \in Dirs}
    /\ out = [fn |-> "none"]

Parse ==
    /\ arg.fn = "ParseDeviceConfig"
    /\ out.fn = "none"
    /\ LET r == ParseDeviceConfig(arg.dir)
       IN  out' = [fn |-> "ParseDeviceConfig", devices |-> r.devices, err |-> r.err]
    /\ UNCHANGED <<SDKConfig, arg>>
    /\ UNCHANGED pipelineVars
    /\ UNCHANGED unifyVars
    /\ UNCHANGED schedVars

ParseNext == Parse

SpecParse == ParseInit /\ [][ParseNext]_vars

\* Some device entry of some file names a location its file does not declare.
NamesUndeclaredLocation(dir) ==
    \E i \in 1..Len(dir.files) :
        /\ ~dir.files[i].readErr
        /\ ~dir.files[i].yamlErr
        /\ LET c == dir.files[i].instanceCfg
           IN  \E n \in 1..Len(c.Devices) :
                   LET loc == MapIndex(c.Devices[n], "location", "")
                   IN  loc # "" /\ loc \notin DOMAIN c.Locations

\* C11: loading the device configuration fails whenever a device instance
\* names a location that its config does not declare, and every device
\* produced has a non-empty rack and a non-empty board.
C11_UnresolvedLocationFails ==
    out.fn = "ParseDeviceConfig" =>
        /\ NamesUndeclaredLocation(arg.dir) => out.err # Nil
        /\ \A i \in 1..Len(out.devices) :
               /\ out.devices[i].Location.Rack # ""
               /\ out.devices[i].Location.Board # ""

\* ---------------------------------------------------------------------------
\* Versions on their own: a version string is drawn, parsed, and the parsed
\* version is compared with another one
\* ---------------------------------------------------------------------------
MaxVersionLen == 3   \* characters of a drawn version string

VersionChars == {"0", "1", "2", ".", "-", "a"}

V2 == <<"2">>
V01 == <<"0", ".", "1">>

\* The versions a parsed version is compared with.
OtherVersions == {V10, V15, V2, V01}

VersionInit ==
    /\ PipelineIdle
    /\ SchedIdle
    /\ UnifyIdle
    /\ SDKConfig = GetDefaultConfig
    /\ arg \in {[fn |-> "NewVersion", versionString |-> v, other |-> o] :
                   v \in SeqsUpTo(VersionChars, MaxVersionLen), o \in OtherVersions}
    /\ out = [fn |-> "none"]

\* NewVersion(versionString), and GetVersion of a config carrying the string.
CallNewVersion ==
    /\ arg.fn = "NewVersion"
    /\ out.fn = "none"
    /\ LET r == NewVersion(arg.versionString)
           g == GetVersion([Version |-> arg.versionString])
       IN  out' = [fn |-> "NewVersion", err |-> r.err, version |-> r.version,
                   getVersionErr |-> g.err]
    /\ UNCHANGED <<SDKConfig, arg>>
    /\ UNCHANGED pipelineVars
    /\ UNCHANGED unifyVars
    /\ UNCHANGED schedVars

\* The three comparisons of the parsed version with the other one.
CompareVersions ==
    /\ out.fn = "NewVersion"
    /\ out.err = Nil
    /\ LET a == out.version
           b == NewVersion(arg.other).version
       IN  out' = [fn |-> "Compare", a |-> a, b |-> b,
                   IsEqual |-> IsEqual(a, b),
                   IsLessThan |-> IsLessThan(a, b),
                   IsGreaterOrEqualTo |-> IsGreaterOrEqualTo(a, b)]
    /\ UNCHANGED <<SDKConfig, arg>>
    /\ UNCHANGED pipelineVars
    /\ UNCHANGED unifyVars
    /\ UNCHANGED schedVars

VersionNext == CallNewVersion \/ CompareVersions

SpecVersion == VersionInit /\ [][VersionNext]_vars

\* A non-empty run of decimal digits.
IsDecimal(s) == s # <<>> /\ \A i \in 1..Len(s) : s[i] \in {"0", "1", "2", "3", "4", "5", "6", "7", "8", "9"}

\* MAJOR or MAJOR.MINOR, each a non-negative decimal integer.
WellFormedVersion(s) ==
    LET dots == {i \in 1..Len(s) : s[i] = "."}
    IN  \/ dots = {} /\ IsDecimal(s)
        \/ \E d \in dots : /\ dots = {d}
                           /\ IsDecimal(SubSeq(s, 1, d - 1))
                           /\ IsDecimal(SubSeq(s, d + 1, Len(s)))

\* C13: NewVersion returns a version exactly for the strings MAJOR and
\* MAJOR.MINOR with non-negative decimal components (MINOR 0 when absent);
\* for every other string it returns an error and no version, and a config
\* without a version fails GetVersion.
C13_NewVersionExactlyWellFormed ==
    out.fn = "NewVersion" =>
        /\ out.err = Nil <=> WellFormedVersion(arg.versionString)
        /\ out.err = Nil => (out.version.Major >= 0 /\ out.version.Minor >= 0)
        /\ (out.err = Nil /\ \A i \in 1..Len(arg.versionString) : arg.versionString[i] # ".")
               => out.version.Minor = 0
        /\ out.err # Nil => out.version = Nil
        /\ arg.versionString = <<>> => out.getVersionErr # Nil

\* The minor components the comparisons are tried with.
Minors == 0..3

\* C14: IsEqual, IsLessThan and IsGreaterOrEqualTo depend only on the major
\* components: replacing the minors of a and b by any others changes none of
\* the three results, versions of the same major are IsEqual whatever their
\* minors, and exactly one of IsLessThan and IsGreaterOrEqualTo is true.
C14_ComparisonsUseMajorOnly ==
    out.fn = "Compare" =>
        /\ \A m \in Minors, n \in Minors :
               LET a == [out.a EXCEPT !.Minor = m]
                   b == [out.b EXCEPT !.Minor = n]
               IN  /\ IsEqual(a, b) = out.IsEqual
                   /\ IsLessThan(a, b) = out.IsLessThan
                   /\ IsGreaterOrEqualTo(a, b) = out.IsGreaterOrEqualTo
        /\ out.a.Major = out.b.Major => out.IsEqual
        /\ out.IsLessThan # out.IsGreaterOrEqualTo

C14_Witness ==
    /\ out.fn = "Compare"
    /\ out.a.Major = out.b.Major
    /\ out.a.Minor # out.b.Minor
    /\ out.IsEqual
    /\ ~out.IsLessThan
    /\ out.IsGreaterOrEqualTo

\* ---------------------------------------------------------------------------
\* Reading.Encode
\*
\* A reading value is a pair of its dynamic type and the value held; the nil
\* interface is the pair of type "nil".  Integer values are drawn inside the
\* range of their type, where the conversions int32(t), int64(t), uint32(t)
\* and uint64(t) of a narrower type keep the value.
\* ---------------------------------------------------------------------------
Value(type, val) == [type |-> type, val |-> val]

Unit(name, symbol) == [Name |-> name, Symbol |-> symbol]

Reading(timestamp, type, info, unit, value) ==
    [Timestamp |-> timestamp, Type |-> type, Info |-> info, Unit |-> unit, Value |-> value]

\* unit.Encode(): the wire unit carries the name and the symbol.
UnitEncode(unit) == [Name |-> unit.Name, Symbol |-> unit.Symbol]

\* The wire value: the variant of the oneof and the value it holds.
WireValue(variant, val) == [variant |-> variant, val |-> val]

\* The type switch with uint8 sent to the signed 32-bit variant.
EncodeValue_Uint8Signed(value) ==
    LET t == value.val
    IN  CASE value.type = "string" -> [panic |-> FALSE, Value |-> WireValue("StringValue", t)]
          [] value.type = "bool" -> [panic |-> FALSE, Value |-> WireValue("BoolValue", t)]
          [] value.type = "float64" -> [panic |-> FALSE, Value |-> WireValue("Float64Value", t)]
          [] value.type = "float32" -> [panic |-> FALSE, Value |-> WireValue("Float32Value", t)]
          [] value.type = "int64" -> [panic |-> FALSE, Value |-> WireValue("Int64Value", t)]
          [] value.type = "int32" -> [panic |-> FALSE, Value |-> WireValue("Int32Value", t)]
          [] value.type = "int16" -> [panic |-> FALSE, Value |-> WireValue("Int32Value", t)]
          [] value.type = "int8" -> [panic |-> FALSE, Value |-> WireValue("Int32Value", t)]
          [] value.type = "int" -> [panic |-> FALSE, Value |-> WireValue("Int64Value", t)]
          [] value.type = "[]byte" -> [panic |-> FALSE, Value |-> WireValue("BytesValue", t)]
          [] value.type = "uint64" -> [panic |-> FALSE, Value |-> WireValue("Uint64Value", t)]
          [] value.type = "uint32" -> [panic |-> FALSE, Value |-> WireValue("Uint32Value", t)]
          [] value.type = "uint16" -> [panic |-> FALSE, Value |-> WireValue("Uint32Value", t)]
          [] value.type = "uint8" -> [panic |-> FALSE, Value |-> WireValue("Int32Value", t)]
          [] value.type = "uint" -> [panic |-> FALSE, Value |-> WireValue("Uint64Value", t)]
          [] value.type = "nil" -> [panic |-> FALSE, Value |-> None]
          [] OTHER -> [panic |-> TRUE, Value |-> None]

\* The type switch without its default branch: an unmatched type leaves the
\* value unset.
EncodeValue_NoDefault(value) ==
    LET t == value.val
    IN  CASE value.type = "string" -> [panic |-> FALSE, Value |-> WireValue("StringValue", t)]
          [] value.type = "bool" -> [panic |-> FALSE, Value |-> WireValue("BoolValue", t)]
          [] value.type = "float64" -> [panic |-> FALSE, Value |-> WireValue("Float64Value", t)]
          [] value.type = "float32" -> [panic |-> FALSE, Value |-> WireValue("Float32Value", t)]
          [] value.type = "int64" -> [panic |-> FALSE, Value |-> WireValue("Int64Value", t)]
          [] value.type = "int32" -> [panic |-> FALSE, Value |-> WireValue("Int32Value", t)]
          [] value.type = "int16" -> [panic |-> FALSE, Value |-> WireValue("Int32Value", t)]
          [] value.type = "int8" -> [panic |-> FALSE, Value |-> WireValue("Int32Value", t)]
          [] value.type = "int" -> [panic |-> FALSE, Value |-> WireValue("Int64Value", t)]
          [] value.type = "[]byte" -> [panic |-> FALSE, Value |-> WireValue("BytesValue", t)]
          [] value.type = "uint64" -> [panic |-> FALSE, Value |-> WireValue("Uint64Value", t)]
          [] value.type = "uint32" -> [panic |-> FALSE, Value |-> WireValue("Uint32Value", t)]
          [] value.type = "uint16" -> [panic |-> FALSE, Value |-> WireValue("Uint32Value", t)]
          [] value.type = "uint8" -> [panic |-> FALSE, Value |-> WireValue("Uint32Value", t)]
          [] value.type = "uint" -> [panic |-> FALSE, Value |-> WireValue("Uint64Value", t)]
          [] OTHER -> [panic |-> FALSE, Value |-> None]

\* switch t := reading.Value.(type)
EncodeValue(value) ==
    LET t == value.val
    IN  CASE value.type = "string" -> [panic |-> FALSE, Value |-> WireValue("StringValue", t)]
          [] value.type = "bool" -> [panic |-> FALSE, Value |-> WireValue("BoolValue", t)]
          [] value.type = "float64" -> [panic |-> FALSE, Value |-> WireValue("Float64Value", t)]
          [] value.type = "float32" -> [panic |-> FALSE, Value |-> WireValue("Float32Value", t)]
          [] value.type = "int64" -> [panic |-> FALSE, Value |-> WireValue("Int64Value", t)]
          [] value.type = "int32" -> [panic |-> FALSE, Value |-> WireValue("Int32Value", t)]
          [] value.type = "int16" -> [panic |-> FALSE, Value |-> WireValue("Int32Value", t)]
          [] value.type = "int8" -> [panic |-> FALSE, Value |-> WireValue("Int32Value", t)]
          [] value.type = "int" -> [panic |-> FALSE, Value |-> WireValue("Int64Value", t)]
          [] value.type = "[]byte" -> [panic |-> FALSE, Value |-> WireValue("BytesValue", t)]
          [] value.type = "uint64" -> [panic |-> FALSE, Value |-> WireValue("Uint64Value", t)]
          [] value.type = "uint32" -> [panic |-> FALSE, Value |-> WireValue("Uint32Value", t)]
          [] value.type = "uint16" -> [panic |-> FALSE, Value |-> WireValue("Uint32Value", t)]
          [] value.type = "uint8" -> [panic |-> FALSE, Value |-> WireValue("Uint32Value", t)]
          [] value.type = "uint" -> [panic |-> FALSE, Value |-> WireValue("Uint64Value", t)]
          [] value.type = "nil" -> [panic |-> FALSE, Value |-> None]
          [] OTHER -> [panic |-> TRUE, Value |-> None]

\* reading.Encode(): the message returned, or the panic.
Encode(reading) ==
    LET unit == IF reading.Unit # None THEN reading.Unit ELSE Unit("", "")
        context == IF reading.Info # "" THEN [k \in {"info"} |-> reading.Info]
                   ELSE [k \in {} |-> ""]
        v == EncodeValue(reading.Value)
    IN  IF v.panic THEN [panic |-> TRUE, r |-> None]
        ELSE [panic |-> FALSE,
              r |-> [Timestamp |-> reading.Timestamp, Type |-> reading.Type,
                     Context |-> context, Unit |-> UnitEncode(unit), Value |-> v.Value]]

\* ---------------------------------------------------------------------------
\* Reading.Encode on its own: a reading is drawn, then encoded
\* ---------------------------------------------------------------------------
\* What a value holds: text, a truth value, a float (a fraction in lowest
\* terms), an integer, bytes.
Text(s) == [text |-> s]
Truth(b) == [truth |-> b]
Float(f) == [float |-> f]
Integer(i) == [integer |-> i]
Bytes(b) == [bytes |-> b]

\* The values a handler may put in a reading, by dynamic type.
SupportedValues ==
    {Value("string", Text(s)) : s \in {"", "on"}}
        \cup {Value("bool", Truth(b)) : b \in BOOLEAN}
        \cup {Value("float32", Float(f)) : f \in {[num |-> 0, den |-> 1], [num |-> 3, den |-> 2]}}
        \cup {Value("float64", Float(f)) : f \in {[num |-> 0, den |-> 1], [num |-> -9, den |-> 4]}}
        \cup {Value("int8", Integer(i)) : i \in {-128, 0, 127}}
        \cup {Value("int16", Integer(i)) : i \in {-32768, 1, 32767}}
        \cup {Value("int32", Integer(i)) : i \in {-2147483647, 2, 2147483647}}
        \cup {Value("int64", Integer(i)) : i \in {-2147483647, 3, 2147483647}}
        \cup {Value("int", Integer(i)) : i \in {-2147483647, 4, 2147483647}}
        \cup {Value("uint8", Integer(i)) : i \in {0, 255}}
        \cup {Value("uint16", Integer(i)) : i \in {0, 65535}}
        \cup {Value("uint32", Integer(i)) : i \in {0, 2147483647}}
        \cup {Value("uint64", Integer(i)) : i \in {0, 2147483647}}
        \cup {Value("uint", Integer(i)) : i \in {0, 2147483647}}
        \cup {Value("[]byte", Bytes(b)) : b \in {<<>>, <<0, 255>>}}
        \cup {Value("nil", None)}

\* Values of types the switch has no case for: a named integer type, a
\* complex number, a slice of strings, a nil pointer, a struct.
UnsupportedValues ==
    {Value("time.Duration", Integer(5)), Value("complex128", [complex |-> "1+2i"]),
     Value("[]string", [strings |-> <<"a">>]), Value("*int", None),
     Value("struct", [x |-> 1])}

Readings ==
    {Reading(ts, "temperature", info, unit, v) :
        ts \in {"", "2019-01-01T00:00:00Z"},
        info \in {"", "bus 1"},
        unit \in {None, Unit("celsius", "C")},
        v \in SupportedValues \cup UnsupportedValues}

EncodeInit ==
    /\ PipelineIdle
    /\ SchedIdle
    /\ UnifyIdle
    /\ SDKConfig = GetDefaultConfig
    /\ arg \in {[fn |-> "Encode", reading |-> r] : r \in Readings}
    /\ out = [fn |-> "none"]

CallEncode ==
    /\ arg.fn = "Encode"
    /\ out.fn = "none"
    /\ LET e == Encode(arg.reading)
       IN  out' = [fn |-> "Encode", panic |-> e.panic, r |-> e.r]
    /\ UNCHANGED <<SDKConfig, arg>>
    /\ UNCHANGED pipelineVars
    /\ UNCHANGED unifyVars
    /\ UNCHANGED schedVars

EncodeNext == CallEncode

SpecEncode == EncodeInit /\ [][EncodeNext]_vars

\* The wire variant the claim gives each supported type but nil.
WireVariantOf ==
    [t \in {"string", "bool", "float32", "float64", "int8", "int16", "int32", "int",
            "int64", "uint8", "uint16", "uint32", "uint", "uint64", "[]byte"} |->
        CASE t = "string" -> "StringValue"
          [] t = "bool" -> "BoolValue"
          [] t = "float32" -> "Float32Value"
          [] t = "float64" -> "Float64Value"
          [] t \in {"int8", "int16", "int32"} -> "Int32Value"
          [] t \in {"int", "int64"} -> "Int64Value"
          [] t \in {"uint8", "uint16", "uint32"} -> "Uint32Value"
          [] t \in {"uint", "uint64"} -> "Uint64Value"
          [] t = "[]byte" -> "BytesValue"]

SupportedTypes == DOMAIN WireVariantOf \cup {"nil"}

\* C15: Encode picks the wire variant from the dynamic type of Value and
\* keeps the value; a nil Value encodes to a message with no value; timestamp
\* and type are copied unchanged.
C15_EncodeKeepsTypeAndValue ==
    (out.fn = "Encode" /\ arg.reading.Value.type \in SupportedTypes) =>
        /\ ~out.panic
        /\ out.r.Timestamp = arg.reading.Timestamp
        /\ out.r.Type = arg.reading.Type
        /\ arg.reading.Value.type = "nil" => out.r.Value = None
        /\ arg.reading.Value.type # "nil" =>
               /\ out.r.Value # None
               /\ out.r.Value.variant = WireVariantOf[arg.reading.Value.type]
               /\ out.r.Value.val = arg.reading.Value.val

C15_Witness ==
    /\ out.fn = "Encode"
    /\ arg.reading.Value = Value("uint8", Integer(255))
    /\ ~out.panic
    /\ out.r.Value = WireValue("Uint32Value", Integer(255))
    /\ out.r.Timestamp = "2019-01-01T00:00:00Z"

\* C16: Encode panics and returns no message exactly when the dynamic type of
\* Value is outside the supported set.
C16_EncodePanicsOnUnsupported ==
    out.fn = "Encode" =>
        /\ out.panic <=> arg.reading.Value.type \notin SupportedTypes
        /\ out.panic => out.r = None
        /\ ~out.panic => out.r # None

C16_Witness ==
    /\ out.fn = "Encode"
    /\ arg.reading.Value.type = "time.Duration"
    /\ out.panic
    /\ out.r = None

\* ---------------------------------------------------------------------------
\* The earlier plugin configuration on its own: the plugin calls
\* ConfigurePlugin any number of times on the global configuration
\* ---------------------------------------------------------------------------
\* The configurations a plugin passes: with and without the required fields,
\* each sized field unset (0) or set.
PassedPluginConfigs ==
    {SDKPluginConfig(nv[1], nv[2], ld[2], wbs, wpl, ld[1], rbs, ttl) :
        nv \in {<<"plugin", "1.0">>, <<"", "1.0">>, <<"plugin", "">>},
        ld \in {<<0, FALSE>>, <<3, TRUE>>},
        wbs \in {0, 8}, wpl \in {0, 2}, rbs \in {0, 7}, ttl \in {0, 9}}

ConfigureInit ==
    /\ PipelineIdle
    /\ SchedIdle
    /\ UnifyIdle
    /\ FuncIdle

\* ConfigurePlugin(config) on the global configuration; out keeps what
\* ConfigurePlugin returned and what the Merge it calls returned.
CallConfigurePlugin ==
    /\ \E config \in PassedPluginConfigs :
          LET r == ConfigurePlugin(SDKConfig, config)
          IN  /\ arg' = [fn |-> "ConfigurePlugin", config |-> config, before |-> SDKConfig]
              /\ out' = [fn |-> "ConfigurePlugin", err |-> r.err, merge |-> r.merge]
              /\ SDKConfig' = r.Config
    /\ UNCHANGED pipelineVars
    /\ UNCHANGED unifyVars
    /\ UNCHANGED schedVars

ConfigureNext == CallConfigurePlugin

SpecConfigure == ConfigureInit /\ [][ConfigureNext]_vars

\* The configuration passed carries the required fields.
HasRequiredFields(config) == config.Name # "" /\ config.Version # ""

\* C17: whenever a plugin config with readBufferSize = 0 (writeBufferSize = 0,
\* writesPerLoop = 0) is applied, the effective value afterwards is the
\* default 100 (100, 5), for every application in a sequence.
C17_ZeroMeansDefault ==
    (out.fn = "ConfigurePlugin" /\ HasRequiredFields(arg.config)) =>
        /\ arg.config.ReadBufferSize = 0 => SDKConfig.ReadBufferSize = 100
        /\ arg.config.WriteBufferSize = 0 => SDKConfig.WriteBufferSize = 100
        /\ arg.config.WritesPerLoop = 0 => SDKConfig.WritesPerLoop = 5

\* C18: ConfigurePlugin called with a config whose Name or Version is empty
\* returns an error to its caller.
C18_MissingNameOrVersionIsError ==
    (out.fn = "ConfigurePlugin" /\ ~HasRequiredFields(arg.config)) => out.err # Nil

\* C26: Merge with an argument whose Name or Version is empty returns an
\* error and leaves every field of the receiver unchanged; with both non-empty
\* it returns nil, sets Name, Version, LoopDelay and Debug to the argument's
\* values and changes ReadBufferSize, WriteBufferSize, WritesPerLoop and
\* TransactionTTL only where the argument's field is non-zero.
C26_MergeErrorOrUpdate ==
    out.fn = "ConfigurePlugin" =>
        IF ~HasRequiredFields(arg.config)
        THEN /\ out.merge # Nil
             /\ SDKConfig = arg.before
        ELSE /\ out.merge = Nil
             /\ SDKConfig.Name = arg.config.Name
             /\ SDKConfig.Version = arg.config.Version
             /\ SDKConfig.LoopDelay = arg.config.LoopDelay
             /\ SDKConfig.Debug = arg.config.Debug
             /\ \A f \in {"ReadBufferSize", "WriteBufferSize", "WritesPerLoop", "TransactionTTL"} :
                    SDKConfig[f] = IF arg.config[f] # 0 THEN arg.config[f] ELSE arg.before[f]

C26_Witness ==
    /\ out.fn = "ConfigurePlugin"
    /\ arg.config.Name = ""
    /\ arg.config.ReadBufferSize = 0
    /\ arg.before.Name = "plugin"
    /\ arg.before.ReadBufferSize = 7
    /\ out.merge # Nil
    /\ SDKConfig = arg.before

\* C30: starting from GetDefaultConfig, after any sequence of Merge calls
\* whose arguments have non-negative fields, ReadBufferSize, WriteBufferSize,
\* WritesPerLoop and TransactionTTL are all at least 1.
C30_SizedFieldsStayPositive ==
    /\ SDKConfig.ReadBufferSize >= 1
    /\ SDKConfig.WriteBufferSize >= 1
    /\ SDKConfig.WritesPerLoop >= 1
    /\ SDKConfig.TransactionTTL >= 1

C30_Witness ==
    /\ out.fn = "ConfigurePlugin"
    /\ out.merge = Nil
    /\ arg.before.TransactionTTL = 9
    /\ arg.before.WritesPerLoop = 2
    /\ arg.config.TransactionTTL = 0
    /\ arg.config.WritesPerLoop = 0
    /\ SDKConfig.TransactionTTL = 9
    /\ SDKConfig.WritesPerLoop = 2

\* ---------------------------------------------------------------------------
\* OutputType.GetScalingFactor and OutputType.Apply
\*
\* A float64 is held as a fraction in lowest terms; a scaling factor string
\* is a sequence of characters.
\* ---------------------------------------------------------------------------
Abs(n) == IF n < 0 THEN 0 - n ELSE n

RECURSIVE GCD(_, _)
GCD(a, b) == IF b = 0 THEN a ELSE GCD(b, a % b)

RECURSIVE Pow10(_)
Pow10(n) == IF n = 0 THEN 1 ELSE 10 * Pow10(n - 1)

\* The fraction n/d in lowest terms with a positive denominator.
Ratio(n, d) ==
    LET g == GCD(Abs(n), Abs(d))
        s == IF d < 0 THEN -1 ELSE 1
    IN  [num |-> s * (n \div g), den |-> s * (d \div g)]

RatMul(a, b) == Ratio(a.num * b.num, a.den * b.den)

RatSub(a, b) == Ratio(a.num * b.den - b.num * a.den, a.den * b.den)

\* strconv.ParseFloat on a decimal literal: an optional sign, digits with at
\* most one point and at least one digit, an optional exponent (e or E, an
\* optional sign, digits).
ParseFloat(s) ==
    LET signed == s # <<>> /\ s[1] \in {"+", "-"}
        negative == signed /\ s[1] = "-"
        body == IF signed THEN Tail(s) ELSE s
        es == {i \in 1..Len(body) : body[i] \in {"e", "E"}}
        e == IF es = {} THEN Len(body) + 1 ELSE CHOOSE i \in es : \A j \in es : i <= j
        mantissa == SubSeq(body, 1, e - 1)
        exponent == SubSeq(body, e + 1, Len(body))
        points == {i \in 1..Len(mantissa) : mantissa[i] = "."}
        p == IF points = {} THEN Len(mantissa) + 1 ELSE CHOOSE i \in points : TRUE
        digits == SubSeq(mantissa, 1, p - 1) \o SubSeq(mantissa, p + 1, Len(mantissa))
        fraction == IF points = {} THEN 0 ELSE Len(mantissa) - p
        exp == IF es = {} THEN [err |-> Nil, val |-> 0] ELSE Atoi(exponent)
    IN  IF \/ Cardinality(points) > 1
           \/ digits = <<>>
           \/ \E i \in 1..Len(digits) : ~IsDigit(digits[i])
           \/ exp.err # Nil
        THEN [err |-> "invalid syntax", f |-> Ratio(0, 1)]
        ELSE LET shift == exp.val - fraction
                 m == IF negative THEN 0 - DecVal(digits) ELSE DecVal(digits)
             IN  [err |-> Nil,
                  f |-> IF shift >= 0 THEN Ratio(m * Pow10(shift), 1)
                        ELSE Ratio(m, Pow10(0 - shift))]

\* An OutputType with the fields GetScalingFactor and Apply read.
ScaledOutputType(scalingFactor, conversion) ==
    [Version |-> V10, Name |-> "temperature",
     ScalingFactor |-> scalingFactor, Conversion |-> conversion]

\* GetScalingFactor that answers the default factor when the string does
\* not parse.
GetScalingFactor_DefaultOnError(outputType) ==
    IF outputType.ScalingFactor = <<>> THEN [err |-> Nil, f |-> Ratio(1, 1)]
    ELSE LET r == ParseFloat(outputType.ScalingFactor)
         IN  IF r.err # Nil THEN [err |-> Nil, f |-> Ratio(1, 1)] ELSE r

\* outputType.GetScalingFactor(): 1 when no factor is set, the parsed factor
\* otherwise, and 0 with the error when the string does not parse.
GetScalingFactor(outputType) ==
    IF outputType.ScalingFactor = <<>> THEN [err |-> Nil, f |-> Ratio(1, 1)]
    ELSE ParseFloat(outputType.ScalingFactor)

\* The coercion of a value to float64: numeric types widen, every other type
\* gives 0.
ConvertToFloat64(value) ==
    IF "integer" \in DOMAIN value.val THEN Ratio(value.val.integer, 1)
    ELSE IF "float" \in DOMAIN value.val THEN value.val.float
    ELSE Ratio(0, 1)

\* englishToMetricTemperature: (f - 32) * 5/9
englishToMetricTemperature(f) == RatMul(RatSub(f, Ratio(32, 1)), Ratio(5, 9))

\* Apply that scales whatever the factor is.
Apply_AlwaysScales(outputType, value) ==
    LET sf == GetScalingFactor(outputType)
    IN  IF sf.err # Nil THEN value
        ELSE LET scaled == RatMul(ConvertToFloat64(value), sf.f)
             IN  CASE outputType.Conversion = "" -> [type |-> "float64", val |-> [float |-> scaled]]
                   [] outputType.Conversion = "englishToMetricTemperature" ->
                        [type |-> "float64", val |-> [float |-> englishToMetricTemperature(scaled)]]
                   [] OTHER -> [type |-> "nil", val |-> None]

\* outputType.Apply(value)
Apply(outputType, value) ==
    LET sf == GetScalingFactor(outputType)
    IN  IF sf.err # Nil THEN value
        ELSE IF sf.f = Ratio(0, 1) \/ sf.f = Ratio(1, 1) THEN value
        ELSE LET scaled == RatMul(ConvertToFloat64(value), sf.f)
             IN  CASE outputType.Conversion = "" -> [type |-> "float64", val |-> [float |-> scaled]]
                   [] outputType.Conversion = "englishToMetricTemperature" ->
                        [type |-> "float64", val |-> [float |-> englishToMetricTemperature(scaled)]]
                   [] OTHER -> [type |-> "nil", val |-> None]

\* ---------------------------------------------------------------------------
\* OutputType.Apply on its own: an output type and a value are drawn, then
\* the value is applied
\* ---------------------------------------------------------------------------
MaxFactorLen == 3   \* characters of a drawn scaling factor string

FactorChars == {"0", "1", "5", ".", "e", "-", "+"}

\* The characters after the first e of s.
AfterE(s) ==
    LET es == {i \in 1..Len(s) : s[i] = "e"}
    IN  IF es = {} THEN <<>>
        ELSE SubSeq(s, (CHOOSE i \in es : \A j \in es : i <= j) + 1, Len(s))

\* The drawn factor strings; an exponent has at most one digit, 0 or 1,
\* which keeps the scaled values inside the integers of the checker.
ScalingFactors ==
    {s \in SeqsUpTo(FactorChars, MaxFactorLen) :
        /\ Cardinality({i \in 1..Len(AfterE(s)) : IsDigit(AfterE(s)[i])}) <= 1
        /\ \A i \in 1..Len(AfterE(s)) : AfterE(s)[i] # "5"}

Conversions == {"", "englishToMetricTemperature", "unsupportedConversion"}

\* The values applied: numeric values of several types and both bools.
AppliedValues ==
    {Value("int", Integer(2)), Value("int16", Integer(319)), Value("uint8", Integer(3)),
     Value("float32", Float(Ratio(3, 1))), Value("float64", Float(Ratio(1, 2))),
     Value("bool", Truth(TRUE)), Value("bool", Truth(FALSE))}

ApplyInit ==
    /\ PipelineIdle
    /\ SchedIdle
    /\ UnifyIdle
    /\ SDKConfig = GetDefaultConfig
    /\ arg \in {[fn |-> "Apply", output |-> ScaledOutputType(f, c), value |-> v] :
                   f \in ScalingFactors, c \in Conversions, v \in AppliedValues}
    /\ out = [fn |-> "none"]

\* output.GetScalingFactor() and output.Apply(value)
CallApply ==
    /\ arg.fn = "Apply"
    /\ out.fn = "none"
    /\ LET sf == GetScalingFactor(arg.output)
       IN  out' = [fn |-> "Apply", sf |-> sf.f, sfErr |-> sf.err,
                   value |-> Apply(arg.output, arg.value)]
    /\ UNCHANGED <<SDKConfig, arg>>
    /\ UNCHANGED pipelineVars
    /\ UNCHANGED unifyVars
    /\ UNCHANGED schedVars

ApplyNext == CallApply

SpecApply == ApplyInit /\ [][ApplyNext]_vars

\* Factor strings that denote 0 or 1, and the unset factor.
ZeroOrOneLiterals ==
    {<<>>, <<"1">>, <<"+", "1">>, <<"1", ".">>, <<"1", ".", "0">>, <<"1", "e", "0">>,
     <<"0", "1">>, <<"0">>, <<"-", "0">>, <<".", "0">>, <<"0", ".", "0">>, <<"0", "e", "1">>}

\* C19: when the scaling factor parses to 0 or 1, or is unset, Apply(v)
\* returns v itself, with the same dynamic type, for numeric and bool values.
C19_UnitFactorIsIdentity ==
    out.fn = "Apply" =>
        /\ (out.sfErr = Nil /\ out.sf \in {Ratio(0, 1), Ratio(1, 1)}) => out.value = arg.value
        /\ arg.output.ScalingFactor \in ZeroOrOneLiterals =>
               /\ out.sfErr = Nil
               /\ out.value = arg.value

C19_Witness ==
    /\ out.fn = "Apply"
    /\ arg.output.ScalingFactor = <<"1", ".", "0">>
    /\ arg.value = Value("int16", Integer(319))
    /\ out.sf = Ratio(1, 1)
    /\ out.value = Value("int16", Integer(319))

\* s with a leading sign removed.
Unsigned(s) == IF s # <<>> /\ s[1] \in {"+", "-"} THEN Tail(s) ELSE s

\* digits, digits with a point and optional digits after it, or a point and
\* digits.
IsMantissa(m) ==
    \E k \in 0..Len(m) :
        LET a == SubSeq(m, 1, k)
            b == SubSeq(m, k + 1, Len(m))
        IN  \/ IsDecimal(a) /\ b = <<>>
            \/ IsDecimal(a) /\ b # <<>> /\ b[1] = "." /\ (Tail(b) = <<>> \/ IsDecimal(Tail(b)))
            \/ a = <<>> /\ b # <<>> /\ b[1] = "." /\ IsDecimal(Tail(b))

\* nothing, or e or E, an optional sign and digits.
IsExponent(x) == x = <<>> \/ (x[1] \in {"e", "E"} /\ IsDecimal(Unsigned(Tail(x))))

\* The decimal literals: [+-]?(\d+\.?\d*|\.\d+)([eE][+-]?\d+)?
IsDecimalLiteral(s) ==
    LET b == Unsigned(s)
    IN  \E k \in 0..Len(b) : IsMantissa(SubSeq(b, 1, k)) /\ IsExponent(SubSeq(b, k + 1, Len(b)))

\* C20: when the scaling factor string does not parse, GetScalingFactor
\* returns an error with a zero factor and Apply(v) returns v unchanged.
C20_BadFactorLeavesValue ==
    (out.fn = "Apply" /\ arg.output.ScalingFactor # <<>>
        /\ ~IsDecimalLiteral(arg.output.ScalingFactor)) =>
        /\ out.sfErr # Nil
        /\ out.sf = Ratio(0, 1)
        /\ out.value = arg.value

C20_Witness ==
    /\ out.fn = "Apply"
    /\ arg.output.ScalingFactor = <<"1", "e", "+">>
    /\ arg.value = Value("uint8", Integer(3))
    /\ out.sfErr # Nil
    /\ out.sf = Ratio(0, 1)
    /\ out.value = Value("uint8", Integer(3))

\* ---------------------------------------------------------------------------
\* The read/write scheduler, the write queue, the transaction tracker and
\* the transaction reaper
\*
\* The scheduler, the RPC handlers and the reaper are tasks of their own;
\* every step below is one atomic step of one of them.
\* ---------------------------------------------------------------------------
ResourceExhausted == "ResourceExhausted"
NotFound == "NotFound"

Pending == "pending"
Writing == "writing"
Done == "done"
Error == "error"

IsTerminal(state) == state \in {Done, Error}

\* A WriteTransaction as the tracker keeps it; of its two timestamps only
\* the time of the last transition is kept, the one its age is counted from.
WriteTransaction(device, state, updated) ==
    [device |-> device, state |-> state, updated |-> updated]

\* The devices of the registry.
Devices == {"d1"}

\* The try-send with the capacity check left out.
TrySend_Unbounded(queue, capacity, id) == [ok |-> TRUE, queue |-> Append(queue, id)]

\* The non-blocking try-send onto the write queue.
TrySend(queue, capacity, id) ==
    IF Len(queue) >= capacity
    THEN [ok |-> FALSE, queue |-> queue]
    ELSE [ok |-> TRUE, queue |-> Append(queue, id)]

\* The drain taking a transaction whenever one is queued.
DrainTakes_IgnoresBudget(queue, taken, budget) == queue # <<>>

\* The drain takes one more transaction: one is queued and the budget of the
\* iteration is not used up.
DrainTakes(queue, taken, budget) == queue # <<>> /\ taken < budget

\* The handler's result with a failed write put back to pending.
WriteOutcome_Retries(ok) == IF ok THEN Done ELSE Pending

\* The state a transaction gets from the handler's Write: done on success,
\* error on failure.
WriteOutcome(ok) == IF ok THEN Done ELSE Error

\* Expiry that does not look at the age.
Expired_AnyAge(t, time, ttl) == IsTerminal(t.state)

\* The reaper removes a transaction: it is terminal and older than the TTL.
Expired(t, time, ttl) == IsTerminal(t.state) /\ time - t.updated > ttl

\* ---------------------------------------------------------------------------
\* The scheduler running with the RPC handlers and the reaper
\* ---------------------------------------------------------------------------
MaxTransactions == 2   \* transactions created in one run
MaxTime == 2           \* seconds the clock runs

\* The configurations the plugin runs with: the defaults merged with small
\* sizes.
SchedConfigs ==
    {Merge(GetDefaultConfig,
           SDKPluginConfig("plugin", "1.0", FALSE, wbs, wpl, 0, 0, ttl)).c :
        wbs \in {2}, wpl \in {1, 2}, ttl \in {1}}

SchedInit ==
    /\ PipelineIdle
    /\ UnifyIdle
    /\ SchedIdle
    /\ SDKConfig \in SchedConfigs
    /\ arg = [fn |-> "none"]
    /\ out = [fn |-> "none"]

SchedFrame ==
    /\ UNCHANGED pipelineVars
    /\ UNCHANGED unifyVars
    /\ UNCHANGED funcVars

\* RPC Write tracking the new transaction before the try-send, so that a
\* rejected write leaves a transaction behind.
RPCWrite_TracksBeforeSend ==
    /\ \E device \in Devices \cup {"unknown"} :
          IF device \notin Devices
          THEN /\ rpc' = [op |-> "Write", device |-> device, err |-> NotFound, id |-> 0]
               /\ UNCHANGED <<writeChannel, transactions, nextId>>
          ELSE LET sent == TrySend(writeChannel, SDKConfig.WriteBufferSize, nextId)
                   tracked == [id \in DOMAIN transactions \cup {nextId} |->
                                  IF id = nextId
                                  THEN WriteTransaction(device, Pending, now)
                                  ELSE transactions[id]]
               IN  IF ~sent.ok
                   THEN /\ rpc' = [op |-> "Write", device |-> device,
                                        err |-> ResourceExhausted, id |-> 0]
                        /\ transactions' = tracked
                        /\ UNCHANGED <<writeChannel, nextId>>
                   ELSE /\ nextId <= MaxTransactions
                        /\ writeChannel' = sent.queue
                        /\ transactions' = tracked
                        /\ nextId' = nextId + 1
                        /\ rpc' = [op |-> "Write", device |-> device, err |-> Nil, id |-> nextId]
    /\ UNCHANGED <<now, loop, reaper>>
    /\ SchedFrame

\* RPC Write(deviceID, write): NotFound for an unknown device,
\* ResourceExhausted when the queue is full, otherwise a pending transaction
\* is tracked and queued.
RPCWrite ==
    /\ \E device \in Devices \cup {"unknown"} :
          IF device \notin Devices
          THEN /\ rpc' = [op |-> "Write", device |-> device, err |-> NotFound, id |-> 0]
               /\ UNCHANGED <<writeChannel, transactions, nextId>>
          ELSE LET sent == TrySend(writeChannel, SDKConfig.WriteBufferSize, nextId)
               IN  IF ~sent.ok
                   THEN /\ rpc' = [op |-> "Write", device |-> device,
                                        err |-> ResourceExhausted, id |-> 0]
                        /\ UNCHANGED <<writeChannel, transactions, nextId>>
                   ELSE /\ nextId <= MaxTransactions
                        /\ writeChannel' = sent.queue
                        /\ transactions' =
                               [id \in DOMAIN transactions \cup {nextId} |->
                                   IF id = nextId
                                   THEN WriteTransaction(device, Pending, now)
                                   ELSE transactions[id]]
                        /\ nextId' = nextId + 1
                        /\ rpc' = [op |-> "Write", device |-> device, err |-> Nil, id |-> nextId]
    /\ UNCHANGED <<now, loop, reaper>>
    /\ SchedFrame

\* RPC Transaction(id): the state of the transaction, NotFound when the
\* tracker does not hold it.
RPCTransaction ==
    /\ \E id \in 1..MaxTransactions :
          rpc' = IF id \in DOMAIN transactions
                 THEN [op |-> "Transaction", err |-> Nil, id |-> id,
                       state |-> transactions[id].state]
                 ELSE [op |-> "Transaction", err |-> NotFound, id |-> id, state |-> ""]
    /\ UNCHANGED <<writeChannel, transactions, nextId, now, loop, reaper>>
    /\ SchedFrame

\* The scheduler pops one transaction from the write queue and hands it to
\* the device handler: pending -> writing, or error for an unknown device.
DrainWrite ==
    /\ loop.phase = "writes"
    /\ loop.current = 0
    /\ DrainTakes(writeChannel, loop.taken, SDKConfig.WritesPerLoop)
    /\ LET id == Head(writeChannel)
           known == transactions[id].device \in Devices
       IN  /\ writeChannel' = Tail(writeChannel)
           /\ transactions' = [transactions EXCEPT
                                  ![id].state = IF known THEN Writing ELSE Error,
                                  ![id].updated = now]
           /\ loop' = [loop EXCEPT !.taken = @ + 1, !.current = IF known THEN id ELSE 0]
    /\ UNCHANGED <<nextId, now, rpc, reaper>>
    /\ SchedFrame

\* The handler's Write returns: writing -> done or error.
FinishWrite ==
    /\ loop.current # 0
    /\ \E ok \in BOOLEAN :
          transactions' = [transactions EXCEPT
                              ![loop.current].state = WriteOutcome(ok),
                              ![loop.current].updated = now]
    /\ loop' = [loop EXCEPT !.current = 0]
    /\ UNCHANGED <<writeChannel, nextId, now, rpc, reaper>>
    /\ SchedFrame

\* The drain ends: the queue is empty or the budget is used up.
EndDrain ==
    /\ loop.phase = "writes"
    /\ loop.current = 0
    /\ ~DrainTakes(writeChannel, loop.taken, SDKConfig.WritesPerLoop)
    /\ loop' = [loop EXCEPT !.phase = "reads"]
    /\ UNCHANGED <<writeChannel, transactions, nextId, now, rpc, reaper>>
    /\ SchedFrame

\* The reads of the iteration are fanned out.
FanOutReads ==
    /\ loop.phase = "reads"
    /\ loop' = [loop EXCEPT !.phase = "sleep"]
    /\ UNCHANGED <<writeChannel, transactions, nextId, now, rpc, reaper>>
    /\ SchedFrame

\* The sleep of loopDelay ends and the next iteration starts.
Sleep ==
    /\ loop.phase = "sleep"
    /\ loop' = [loop EXCEPT !.phase = "writes", !.taken = 0]
    /\ UNCHANGED <<writeChannel, transactions, nextId, now, rpc, reaper>>
    /\ SchedFrame

\* One pass of the reaper over the tracker, under the tracker's lock.
Reap ==
    /\ transactions' =
           [id \in {i \in DOMAIN transactions :
                       ~Expired(transactions[i], now, SDKConfig.TransactionTTL)} |->
               transactions[id]]
    /\ reaper' = [ran |-> TRUE]
    /\ UNCHANGED <<writeChannel, nextId, now, loop, rpc>>
    /\ SchedFrame

\* A second passes.
Tick ==
    /\ now < MaxTime
    /\ now' = now + 1
    /\ reaper' = [ran |-> FALSE]
    /\ UNCHANGED <<writeChannel, transactions, nextId, loop, rpc>>
    /\ SchedFrame

SchedulerStep == DrainWrite \/ FinishWrite \/ EndDrain \/ FanOutReads \/ Sleep

SchedNext == RPCWrite \/ RPCTransaction \/ SchedulerStep \/ Reap \/ Tick

SpecSched == SchedInit /\ [][SchedNext]_vars

\* The scheduler is a task of its own that is always scheduled again, and a
\* handler's Write returns.
SpecSchedFair == SpecSched /\ WF_vars(SchedulerStep)

\* ---------------------------------------------------------------------------
\* Properties of the scheduler, the write queue and the tracker
\* ---------------------------------------------------------------------------
\* C21: in every iteration of the read-write loop the queued writes are
\* processed before the reads of that iteration and at most writesPerLoop
\* transactions are taken from the write queue; the drain never waits on an
\* empty queue, so every iteration gets to its reads however many writes are
\* queued.
C21_DrainBoundedBeforeReads ==
    /\ [](loop.taken <= SDKConfig.WritesPerLoop)
    /\ [](loop.phase \in {"reads", "sleep"} =>
             /\ loop.current = 0
             /\ \A id \in DOMAIN transactions : transactions[id].state # Writing)
    /\ [][Len(writeChannel') < Len(writeChannel) =>
             /\ loop.phase = "writes"
             /\ loop'.phase = "writes"
             /\ loop'.taken = loop.taken + 1
             /\ writeChannel' = Tail(writeChannel)]_vars
    /\ [][(loop.phase = "writes" /\ loop'.phase = "reads") =>
             (writeChannel = <<>> \/ loop.taken = SDKConfig.WritesPerLoop)]_vars
    /\ (loop.phase = "writes") ~> (loop.phase = "reads")

C21_Witness ==
    /\ loop.phase = "reads"
    /\ SDKConfig.WritesPerLoop = 1
    /\ loop.taken = 1
    /\ writeChannel # <<>>
    /\ \E id \in DOMAIN transactions : IsTerminal(transactions[id].state)

\* The state to is the state from or comes after it in the order
\* pending -> writing -> {done, error}.
Reaches(from, to) ==
    \/ from = to
    \/ from = Pending
    \/ from = Writing /\ to \in {Done, Error}

\* C22: a write transaction's state only moves forward along
\* pending -> writing -> {done, error}: under any interleaving of the
\* scheduler, the RPC handlers and the reaper no observer sees a transaction
\* in a state that precedes one it was seen in earlier, and done and error
\* are never left.
C22_StateOnlyMovesForward ==
    /\ []((rpc.op = "Transaction" /\ rpc.err = Nil /\ rpc.id \in DOMAIN transactions) =>
             Reaches(rpc.state, transactions[rpc.id].state))
    /\ [][\A id \in DOMAIN transactions \cap DOMAIN transactions' :
             Reaches(transactions[id].state, transactions'[id].state)]_vars
    /\ [][\A id \in DOMAIN transactions' \ DOMAIN transactions :
             id = nextId /\ nextId' > nextId /\ transactions'[id].state = Pending]_vars

C22_Witness ==
    /\ rpc.op = "Transaction"
    /\ rpc.err = Nil
    /\ rpc.state = Writing
    /\ rpc.id \in DOMAIN transactions
    /\ transactions[rpc.id].state = Error

\* C23: a Write request arriving while the write queue holds writeBufferSize
\* transactions is rejected with ResourceExhausted in the same step, without
\* creating or enqueuing a transaction; the queue length never exceeds
\* writeBufferSize.
C23_FullQueueRejects ==
    /\ [](Len(writeChannel) <= SDKConfig.WriteBufferSize)
    /\ [][(RPCWrite /\ rpc'.device \in Devices
              /\ Len(writeChannel) = SDKConfig.WriteBufferSize) =>
             /\ rpc'.err = ResourceExhausted
             /\ writeChannel' = writeChannel
             /\ transactions' = transactions
             /\ nextId' = nextId]_vars
    /\ [][(RPCWrite /\ rpc'.err = ResourceExhausted) =>
             Len(writeChannel) = SDKConfig.WriteBufferSize]_vars

C23_Witness ==
    /\ rpc.op = "Write"
    /\ rpc.err = ResourceExhausted
    /\ SDKConfig.WriteBufferSize = 2
    /\ Len(writeChannel) = 2
    /\ DOMAIN transactions = {1, 2}

\* C24: after each reaping pass the tracker holds no transaction that is in
\* a terminal state and older than transactionTTL; the reaper never removes a
\* transaction that is pending or writing, nor a terminal one younger than
\* transactionTTL.
C24_ReaperRemovesExpiredOnly ==
    /\ [](reaper.ran =>
             \A id \in DOMAIN transactions :
                 ~(IsTerminal(transactions[id].state)
                      /\ now - transactions[id].updated > SDKConfig.TransactionTTL))
    /\ [][\A id \in DOMAIN transactions \ DOMAIN transactions' :
             /\ IsTerminal(transactions[id].state)
             /\ now - transactions[id].updated >= SDKConfig.TransactionTTL]_vars

C24_Witness ==
    /\ reaper.ran
    /\ nextId = 3
    /\ DOMAIN transactions = {2}
    /\ IsTerminal(transactions[2].state)
    /\ now - transactions[2].updated = SDKConfig.TransactionTTL

====
